---- MODULE Spec2Model ----
(***************************************************************************)
(* Model of capacitor-fast-sql: the native Database Session (SQLDatabase), *)
(* the HTTP transport handlers in front of it (SQLHTTPServer), the plugin  *)
(* bridge calls (CapgoCapacitorFastSqlPlugin) and the client Connection    *)
(* Handle (SQLConnection) with its transaction() wrapper.                  *)
(*                                                                         *)
(* The engine is SQLite: a table is a set of row ids; INSERT of a present  *)
(* id is a constraint failure that leaves the transaction open; BEGIN      *)
(* inside a transaction, and COMMIT or ROLLBACK outside one, are errors;   *)
(* a COMMIT can fail and keep the transaction open (SQLITE_BUSY) and a     *)
(* statement can fail with an error after which the engine has rolled the  *)
(* transaction back by itself (SQLITE_FULL, SQLITE_IOERR, ...).            *)
(*                                                                         *)
(* The plugin's lifecycle (connect, disconnect, getServerInfo, the Server  *)
(* Instance with its token and port), the server's request entry (token,   *)
(* database header, lookup, route) on both builds, and NativeSQL's cache   *)
(* of handles have specifications of their own: SpecPlugin, SpecServe,     *)
(* SpecNative.                                                             *)
(*                                                                         *)
(* The requests of any method and body (SpecRequests), the result that     *)
(* execute returns (SpecResult) and the values on their way from the       *)
(* client into a column and back (SpecCodec, SpecEcho) follow.             *)
(***************************************************************************)
EXTENDS Integers, Sequences, FiniteSets, TLC

\* Row ids a statement can insert: 1..MaxRow.
MaxRow == 2
\* Longest batch of operations sent to /batch.
MaxBatch == 3
\* Requests the server handles at once (worker threads).
NumWorkers == 2
\* Server Instances the plugin creates in one run.
MaxServers == 2
\* NativeSQL.connect calls that overlap.
NumCallers == 2
\* Engine handles open at once for one name.
MaxHandles == 2

Rows == 1..MaxRow
Databases == {"a", "b"}

VARIABLES
  databases,    \* plugin registry: name -> session (SQLDatabase and its file)
  connections,  \* NativeSQL.connections: name -> SQLConnection (client handle)
  task,         \* the running SQLConnection.transaction() call, if any
  requests,     \* HTTP requests in flight in the server, one per worker thread
  last,         \* the last operation, what it met and how it ended (history)
  platform,     \* the build: "ios" or "android"
  server,       \* the plugin's server field: the Server Instance, if any
  opened,       \* name -> engine handles opened and not closed
  calls         \* NativeSQL.connect calls that are awaiting the plugin

vars == <<databases, connections, task, requests, last,
          platform, server, opened, calls>>

\* The plugin's server lifecycle and NativeSQL's pending calls.
lifecycle == <<platform, server, opened, calls>>

----------------------------------------------------------------------------
\* Statements and engine faults

Insert(r) == <<"INSERT", r>>
Malformed == <<"BAD", 0>>
Begin == <<"BEGIN", 0>>
Commit == <<"COMMIT", 0>>
Rollback == <<"ROLLBACK", 0>>

\* Statements that change no row, and that remove one.
Select == <<"SELECT", 0>>
Delete(r) == <<"DELETE", r>>

DataStatements == {Insert(r) : r \in Rows} \cup {Malformed}
ControlStatements == {Begin, Commit, Rollback}
Statements == DataStatements \cup ControlStatements

\* What the engine does with the statement it is stepping: nothing special,
\* fail and keep the transaction ("busy"), fail and roll the transaction back
\* by itself ("abort").
Faults == {"none", "busy", "abort"}

NoError == "none"

----------------------------------------------------------------------------
\* Database Session: SQLDatabase

\* A session of a name that is not connected.
Closed(durable) ==
  [registered |-> FALSE, isOpen |-> FALSE, inTransaction |-> FALSE,
   tx |-> FALSE, data |-> durable, durable |-> durable]

\* init(path:): opens the file; a new session has a clear Transaction Flag.
SQLDatabase(durable) ==
  [registered |-> TRUE, isOpen |-> TRUE, inTransaction |-> FALSE,
   tx |-> FALSE, data |-> durable, durable |-> durable]

\* close(): sqlite3_close discards a transaction that is still open.
close(s) == [s EXCEPT !.isOpen = FALSE, !.tx = FALSE, !.data = s.durable]

\* The engine rolls the open transaction back by itself.
AutoRollback(s) ==
  IF s.tx THEN [s EXCEPT !.tx = FALSE, !.data = s.durable] ELSE s

\* sqlite3_prepare_v2 + sqlite3_step of one statement on an open handle.
sqlite3_step(s, stmt, fault) ==
  CASE stmt[1] = "BAD" -> [err |-> "prepareFailed", s |-> s]
    [] stmt[1] = "BEGIN" ->
         IF s.tx THEN [err |-> "executeFailed", s |-> s]
         ELSE [err |-> NoError, s |-> [s EXCEPT !.tx = TRUE]]
    [] stmt[1] = "ROLLBACK" ->
         IF ~s.tx THEN [err |-> "executeFailed", s |-> s]
         ELSE [err |-> NoError, s |-> [s EXCEPT !.tx = FALSE, !.data = s.durable]]
    [] stmt[1] = "COMMIT" ->
         IF ~s.tx THEN [err |-> "executeFailed", s |-> s]
         ELSE IF fault = "busy" THEN [err |-> "executeFailed", s |-> s]
         ELSE IF fault = "abort" THEN [err |-> "executeFailed", s |-> AutoRollback(s)]
         ELSE [err |-> NoError, s |-> [s EXCEPT !.tx = FALSE, !.durable = s.data]]
    [] stmt[1] = "SELECT" ->
         IF fault = "busy" THEN [err |-> "executeFailed", s |-> s]
         ELSE IF fault = "abort" THEN [err |-> "executeFailed", s |-> AutoRollback(s)]
         ELSE [err |-> NoError, s |-> s]
    [] stmt[1] = "DELETE" ->
         IF fault = "busy" THEN [err |-> "executeFailed", s |-> s]
         ELSE IF fault = "abort" THEN [err |-> "executeFailed", s |-> AutoRollback(s)]
         ELSE [err |-> NoError,
               s |-> [s EXCEPT !.data = s.data \ {stmt[2]},
                               !.durable = IF s.tx THEN s.durable
                                           ELSE s.data \ {stmt[2]}]]
    [] OTHER ->
         IF fault = "busy" THEN [err |-> "executeFailed", s |-> s]
         ELSE IF fault = "abort" THEN [err |-> "executeFailed", s |-> AutoRollback(s)]
         ELSE IF stmt[2] \in s.data THEN [err |-> "executeFailed", s |-> s]
         ELSE [err |-> NoError,
               s |-> [s EXCEPT !.data = s.data \cup {stmt[2]},
                               !.durable = IF s.tx THEN s.durable
                                           ELSE s.data \cup {stmt[2]}]]

\* execute(statement:params:)
execute(s, stmt, fault) ==
  IF ~s.isOpen THEN [err |-> "notOpen", s |-> s, issued |-> FALSE]
  ELSE LET r == sqlite3_step(s, stmt, fault)
       IN [err |-> r.err, s |-> r.s, issued |-> TRUE]

\* try: an error of the engine call is thrown to the caller of the method.
\* Ignored is the call written so that the error is dropped.
Throws_Ignored(r) == FALSE
Throws(r) == r.err # NoError

\* inTransaction = true / inTransaction = false
setFlag(s, v) == [s EXCEPT !.inTransaction = v]

\* beginTransaction() with the guard on the flag left out.
beginTransaction_NoGuard(s) ==
  LET r == execute(s, Begin, "none")
  IN IF Throws(r) THEN r ELSE [r EXCEPT !.s = setFlag(r.s, TRUE)]

\* beginTransaction()
beginTransaction(s) ==
  IF s.inTransaction
  THEN [err |-> "transactionAlreadyActive", s |-> s, issued |-> FALSE]
  ELSE LET r == execute(s, Begin, "none")
       IN IF Throws(r) THEN r ELSE [r EXCEPT !.s = setFlag(r.s, TRUE)]

\* commitTransaction() with the guard on the flag left out.
commitTransaction_NoGuard(s, fault) ==
  LET r == execute(s, Commit, fault)
  IN IF Throws(r) THEN r ELSE [r EXCEPT !.s = setFlag(r.s, FALSE)]

\* commitTransaction()
commitTransaction(s, fault) ==
  IF ~s.inTransaction
  THEN [err |-> "noTransactionActive", s |-> s, issued |-> FALSE]
  ELSE LET r == execute(s, Commit, fault)
       IN IF Throws(r) THEN r ELSE [r EXCEPT !.s = setFlag(r.s, FALSE)]

\* rollbackTransaction() that clears the flag and leaves the engine alone.
rollbackTransaction_FlagOnly(s) ==
  IF ~s.inTransaction
  THEN [err |-> "noTransactionActive", s |-> s, issued |-> FALSE]
  ELSE [err |-> NoError, s |-> setFlag(s, FALSE), issued |-> FALSE]

\* rollbackTransaction()
rollbackTransaction(s) ==
  IF ~s.inTransaction
  THEN [err |-> "noTransactionActive", s |-> s, issued |-> FALSE]
  ELSE LET r == execute(s, Rollback, "none")
       IN IF Throws(r) THEN r ELSE [r EXCEPT !.s = setFlag(r.s, FALSE)]

----------------------------------------------------------------------------
\* Transport Server: the handler of each route, for a request that carries the
\* token and names a registered database (SQLHTTPServer)

Response(r) ==
  [status |-> IF r.err = NoError THEN 200 ELSE 500, error |-> r.err,
   s |-> r.s, issued |-> r.issued]

\* handleExecuteRequest
handleExecuteRequest(s, stmt, fault) == Response(execute(s, stmt, fault))

\* handleBeginTransactionRequest
handleBeginTransactionRequest(s) == Response(beginTransaction(s))

\* handleCommitTransactionRequest
handleCommitTransactionRequest(s, fault) == Response(commitTransaction(s, fault))

\* handleRollbackTransactionRequest
handleRollbackTransactionRequest(s) == Response(rollbackTransaction(s))

\* An operation of a batch that has no "statement" string.
NoStatement == <<"MISSING", 0>>

\* The loop of handleBatchRequest: the operations still to run, the session,
\* the statements handed to the engine so far and the results collected.
\* An operation without statement ends the loop where it stands: iOS answers
\* 400 at that point (the guard inside the loop), on Android getAsString()
\* of the missing member raises there (see route).
RECURSIVE batchLoop(_, _, _, _)
batchLoop(s, ops, stepped, results) ==
  IF ops = <<>>
  THEN [status |-> 200, error |-> NoError, s |-> s, stepped |-> stepped,
        results |-> results]
  ELSE IF Head(ops) = NoStatement
  THEN [status |-> 400, error |-> "missingStatement", s |-> s,
        stepped |-> stepped, results |-> 0]
  ELSE LET r == execute(s, Head(ops), "none")
       IN IF r.err # NoError
          THEN [status |-> 500, error |-> r.err, s |-> r.s,
                stepped |-> Append(stepped, Head(ops)), results |-> 0]
          ELSE batchLoop(r.s, Tail(ops), Append(stepped, Head(ops)), results + 1)

\* A batch loop that records a failure and goes on with the next operation.
RECURSIVE batchLoop_KeepGoing(_, _, _, _, _)
batchLoop_KeepGoing(s, ops, stepped, results, error) ==
  IF ops = <<>>
  THEN [status |-> IF error = NoError THEN 200 ELSE 500, error |-> error,
        s |-> s, stepped |-> stepped,
        results |-> IF error = NoError THEN results ELSE 0]
  ELSE LET r == execute(s, Head(ops), "none")
       IN batchLoop_KeepGoing(r.s, Tail(ops), Append(stepped, Head(ops)),
                              results + 1,
                              IF error = NoError THEN r.err ELSE error)

handleBatchRequest_KeepGoing(s, ops) ==
  batchLoop_KeepGoing(s, ops, <<>>, 0, NoError)

\* handleBatchRequest
handleBatchRequest(s, ops) == batchLoop(s, ops, <<>>, 0)

----------------------------------------------------------------------------
\* Plugin bridge calls (CapgoCapacitorFastSqlPlugin)

\* connect: opens the database and registers the session, unless the name is
\* registered already.
plugin_connect(s) == IF s.registered THEN s ELSE SQLDatabase(s.durable)

\* disconnect: closes the session and removes it from the registry.
plugin_disconnect(s) == Closed(close(s).durable)

NotConnected(s) == [err |-> "notConnected", s |-> s, issued |-> FALSE]

\* beginTransaction
plugin_beginTransaction(s) ==
  IF ~s.registered THEN NotConnected(s) ELSE beginTransaction(s)

\* commitTransaction
plugin_commitTransaction(s, fault) ==
  IF ~s.registered THEN NotConnected(s) ELSE commitTransaction(s, fault)

\* rollbackTransaction
plugin_rollbackTransaction(s) ==
  IF ~s.registered THEN NotConnected(s) ELSE rollbackTransaction(s)

----------------------------------------------------------------------------
\* Connection Handle: SQLConnection.  c is the handle, s the session its
\* requests reach.  An error the handle throws is <<message, server error>>.

NoFailure == <<"none", "none">>
NoConnection == [present |-> FALSE, inTransaction |-> FALSE]

\* constructor
SQLConnection == [present |-> TRUE, inTransaction |-> FALSE]

\* What a call on the handle gives: the error thrown, the handle and the
\* session after it, whether a request was sent, the response's error.
Local(c, s, message) ==
  [thrown |-> <<message, "none">>, c |-> c, s |-> s, sent |-> FALSE,
   issued |-> FALSE, error |-> NoError]

Remote(c, s, resp, message) ==
  [thrown |-> IF resp.status = 200 THEN NoFailure ELSE <<message, resp.error>>,
   c |-> c, s |-> s, sent |-> TRUE, issued |-> resp.issued, error |-> resp.error]

\* execute(statement, params)
conn_execute(c, s, stmt, fault) ==
  LET resp == handleExecuteRequest(s, stmt, fault)
  IN Remote(c, resp.s, resp, "SQL execution failed")

\* executeBatch(operations)
conn_executeBatch(c, s, ops) ==
  LET resp == handleBatchRequest(s, ops)
  IN [thrown |-> IF resp.status = 200 THEN NoFailure
                 ELSE <<"SQL batch execution failed", resp.error>>,
      c |-> c, s |-> resp.s, sent |-> TRUE, error |-> resp.error,
      status |-> resp.status, stepped |-> resp.stepped, results |-> resp.results]

conn_beginTransaction_Silent(c, s) ==
  IF c.inTransaction
  THEN [thrown |-> NoFailure, c |-> c, s |-> s, sent |-> FALSE,
        issued |-> FALSE, error |-> NoError]
  ELSE LET resp == handleBeginTransactionRequest(s)
       IN Remote(IF resp.status = 200 THEN [c EXCEPT !.inTransaction = TRUE] ELSE c,
                 resp.s, resp, "Failed to begin transaction")

\* beginTransaction(isolationLevel)
conn_beginTransaction(c, s) ==
  IF c.inTransaction THEN Local(c, s, "Transaction already in progress")
  ELSE LET resp == handleBeginTransactionRequest(s)
       IN Remote(IF resp.status = 200 THEN [c EXCEPT !.inTransaction = TRUE] ELSE c,
                 resp.s, resp, "Failed to begin transaction")

\* commit() that clears the flag whatever the server answers.
conn_commit_Eager(c, s, fault) ==
  IF ~c.inTransaction THEN Local(c, s, "No transaction in progress")
  ELSE LET resp == handleCommitTransactionRequest(s, fault)
       IN Remote([c EXCEPT !.inTransaction = FALSE], resp.s, resp,
                 "Failed to commit transaction")

\* commit()
conn_commit(c, s, fault) ==
  IF ~c.inTransaction THEN Local(c, s, "No transaction in progress")
  ELSE LET resp == handleCommitTransactionRequest(s, fault)
       IN Remote(IF resp.status = 200 THEN [c EXCEPT !.inTransaction = FALSE] ELSE c,
                 resp.s, resp, "Failed to commit transaction")

\* rollback()
conn_rollback(c, s) ==
  IF ~c.inTransaction THEN Local(c, s, "No transaction in progress")
  ELSE LET resp == handleRollbackTransactionRequest(s)
       IN Remote(IF resp.status = 200 THEN [c EXCEPT !.inTransaction = FALSE] ELSE c,
                 resp.s, resp, "Failed to rollback transaction")

transaction_catch_NoRollback(c, s, caught) ==
  [thrown |-> caught, rollbackThrown |-> NoFailure, c |-> c, s |-> s]

\* The catch block of transaction(): await this.rollback(); throw error.
\* A rollback that throws ends the block with its own error.
transaction_catch(c, s, caught) ==
  LET r == conn_rollback(c, s)
  IN [thrown |-> IF r.thrown # NoFailure THEN r.thrown ELSE caught,
      rollbackThrown |-> r.thrown, c |-> r.c, s |-> r.s]

----------------------------------------------------------------------------
\* Server Instance and Session Registry: the plugin's connect, disconnect and
\* getServerInfo, and the server's request entry.  p is the plugin:
\* [platform, server, databases, opened].

Platforms == {"ios", "android"}
\* findAvailablePort: the first port of 9000..9099 that can be bound
Ports == {9000, 9001}

\* An entry of the server's own databases dictionary (iOS): the SQLDatabase
\* object it holds for a name, and whether that object is the one the plugin
\* has registered now.
NotHeld == [held |-> FALSE, current |-> FALSE, s |-> Closed({})]
HeldCurrent == [held |-> TRUE, current |-> TRUE, s |-> Closed({})]

\* server == nil / null; created counts the instances made so far
\* The interface a listening socket is bound to: the loopback address, or
\* "0.0.0.0" for every interface of the device ("" before there is one).
Loopback == "127.0.0.1"

\* The address the server's socket is created with.  iOS: start() calls
\* server.start(port: port, interface: "127.0.0.1").  Android: the
\* constructor calls super(findAvailablePort()), NanoHTTPD's constructor
\* that takes a port and no hostname, and a NanoHTTPD without hostname binds
\* its socket to the wildcard address.
bindInterface(plat) == IF plat = "ios" THEN Loopback ELSE "0.0.0.0"

NoServer(created) ==
  [exists |-> FALSE, running |-> FALSE, token |-> 0, port |-> 0,
   interface |-> "",
   databases |-> [d \in Databases |-> NotHeld], created |-> created]

\* generateToken: 32 bytes of the system's secure random generator in hex;
\* the n-th token generated is a value no earlier call gave.
generateToken_Fixed(created) == 1
generateToken(created) == created + 1

\* SQLHTTPServer(databases): on iOS the dictionary is a Swift value, and the
\* server keeps the copy made at this call; on Android the server keeps a
\* reference to the plugin's map.
SQLHTTPServer(plat, dbs, created, port) ==
  [exists |-> TRUE, running |-> FALSE, token |-> generateToken(created),
   port |-> port, interface |-> bindInterface(plat),
   databases |-> [d \in Databases |->
                    IF plat = "ios" /\ dbs[d].registered THEN HeldCurrent
                    ELSE NotHeld],
   created |-> created + 1]

NoInfo == [port |-> 0, token |-> 0]
Info(srv) == [port |-> srv.port, token |-> srv.token]

Rejected(p, message) ==
  [resolved |-> FALSE, error |-> message, info |-> NoInfo, p |-> p]
Resolved(p, info) ==
  [resolved |-> TRUE, error |-> NoError, info |-> info, p |-> p]

\* connect(call).  env is what the call meets: whether the database file
\* opens, whether the PRAGMA that SQLDatabase's constructor runs on the open
\* handle succeeds (when it throws, the constructor leaves the handle open and
\* nothing holds it), whether the server's port can be bound, the port
\* found.  The options encrypted and encryptionKey are not read.
Plugin_connect(p, d, env) ==
  IF p.databases[d].registered /\ p.server.exists
  THEN Resolved(p, Info(p.server))
  ELSE IF ~env.open THEN Rejected(p, "Failed to connect to database")
  ELSE IF ~env.pragma
  THEN Rejected([p EXCEPT !.opened[d] = @ + 1], "Failed to connect to database")
  ELSE
    LET dbs == [p.databases EXCEPT ![d] = SQLDatabase(@.durable)]
        q == [p EXCEPT !.databases = dbs, !.opened[d] = @ + 1]
    IN IF p.server.exists THEN Resolved(q, Info(p.server))
       ELSE LET srv == SQLHTTPServer(p.platform, dbs, p.server.created, env.port)
            IN IF env.start
               THEN Resolved([q EXCEPT !.server = [srv EXCEPT !.running = TRUE]],
                             Info(srv))
               ELSE Rejected([q EXCEPT !.server = srv],
                             "Failed to connect to database")

\* The server's dictionary after the plugin closed and removed d: on iOS the
\* copy still holds the closed object.
Forget(srv, d, s) ==
  IF srv.databases[d].current
  THEN [srv EXCEPT !.databases[d] = [held |-> TRUE, current |-> FALSE, s |-> s]]
  ELSE srv

\* disconnect that rejects nothing
Plugin_disconnect_Unchecked(p, d) ==
  LET s == close(p.databases[d])
      dbs == [p.databases EXCEPT ![d] = plugin_disconnect(@)]
      srv == IF \A e \in Databases : ~dbs[e].registered
             THEN NoServer(p.server.created)
             ELSE Forget(p.server, d, s)
  IN Resolved([p EXCEPT !.databases = dbs, !.server = srv,
                        !.opened[d] = IF @ > 0 THEN @ - 1 ELSE 0], NoInfo)

\* disconnect that stops the server although other databases are open
Plugin_disconnect_StopsServer(p, d) ==
  IF ~p.databases[d].registered THEN Rejected(p, "notConnected")
  ELSE Resolved([p EXCEPT !.databases[d] = plugin_disconnect(@),
                          !.server = NoServer(p.server.created),
                          !.opened[d] = @ - 1], NoInfo)

\* disconnect(call)
Plugin_disconnect(p, d) ==
  IF ~p.databases[d].registered THEN Rejected(p, "notConnected")
  ELSE
    LET s == close(p.databases[d])
        dbs == [p.databases EXCEPT ![d] = plugin_disconnect(@)]
        srv == IF \A e \in Databases : ~dbs[e].registered
               THEN NoServer(p.server.created)
               ELSE Forget(p.server, d, s)
    IN Resolved([p EXCEPT !.databases = dbs, !.server = srv,
                          !.opened[d] = @ - 1], NoInfo)

\* getServerInfo(call)
Plugin_getServerInfo(p, d) ==
  IF ~p.databases[d].registered THEN Rejected(p, "notConnected")
  ELSE IF ~p.server.exists THEN Rejected(p, "Server is not running")
  ELSE Resolved(p, Info(p.server))

\* The Authorization and X-Database headers of a request.
NoAuthorization == <<"absent", 0>>
Bearer(tok) == <<"Bearer", tok>>
NoDatabaseHeader == ""

\* a check of the scheme only
Authorized_AnyBearer(srv, header) == header[1] = "Bearer"
\* authHeader == "Bearer \(token)"
Authorized(srv, header) == header = Bearer(srv.token)

\* databases[database] in the server: the session the request is routed to
Lookup(p, d) ==
  IF p.platform = "android"
  THEN [found |-> p.databases[d].registered, current |-> TRUE,
        s |-> p.databases[d]]
  ELSE LET e == p.server.databases[d]
       IN [found |-> e.held, current |-> e.current,
           s |-> IF e.current THEN p.databases[d] ELSE e.s]

Routes ==
  {"/execute", "/batch", "/transaction/begin", "/transaction/commit",
   "/transaction/rollback"}

\* The answer to a body the handler cannot read.  iOS: the guard around
\* JSONSerialization and the casts answers 400 "Invalid request body".
\* Android: JsonParser.parseString / get(...).getAsString() raise, and the
\* catch block of serve() answers 500.
InvalidBody(plat, s) ==
  [status |-> IF plat = "ios" THEN 400 ELSE 500, s |-> s, issued |-> FALSE,
   error |-> "invalidBody"]

NotFound(s) == [status |-> 404, s |-> s, issued |-> FALSE, error |-> NoError]

\* The handler of the route, on the session found.  Android's serve()
\* dispatches on POST and the path after the guards; on iOS each POST route
\* has its handler.  The transaction routes do not read the body.
route(plat, s, req) ==
  IF req.method # "POST" THEN NotFound(s)
  ELSE
  CASE req.path = "/execute" ->
         IF req.body # "valid" THEN InvalidBody(plat, s)
         ELSE LET r == handleExecuteRequest(s, req.stmt, req.fault)
              IN [status |-> r.status, s |-> r.s, issued |-> r.issued,
                  error |-> r.error]
    [] req.path = "/batch" ->
         IF req.body # "valid" THEN InvalidBody(plat, s)
         ELSE LET r == handleBatchRequest(s, req.ops)
              IN [status |-> IF plat = "android" /\ r.error = "missingStatement"
                             THEN 500 ELSE r.status,
                  s |-> r.s, issued |-> s.isOpen /\ r.stepped # <<>>,
                  error |-> r.error]
    [] req.path = "/transaction/begin" ->
         LET r == handleBeginTransactionRequest(s)
         IN [status |-> r.status, s |-> r.s, issued |-> r.issued,
             error |-> r.error]
    [] req.path = "/transaction/commit" ->
         LET r == handleCommitTransactionRequest(s, req.fault)
         IN [status |-> r.status, s |-> r.s, issued |-> r.issued,
             error |-> r.error]
    [] req.path = "/transaction/rollback" ->
         LET r == handleRollbackTransactionRequest(s)
         IN [status |-> r.status, s |-> r.s, issued |-> r.issued,
             error |-> r.error]
    [] OTHER -> NotFound(s)

Refused(p, status) ==
  [status |-> status, issued |-> FALSE, p |-> p, error |-> NoError]

\* serve(session) / the guards that open each handle...Request: the token,
\* the database header, the lookup, then the route.  On iOS setupRoutes
\* registers an OPTIONS route for each path, whose handler answers without
\* any guard, with corsPreflightResponse(), 200 and the CORS headers;
\* Android's serve() has no branch for OPTIONS.
serve(p, req) ==
  IF p.platform = "ios" /\ req.method = "OPTIONS" /\ req.path \in Routes
  THEN Refused(p, 200)
  ELSE IF ~Authorized(p.server, req.authorization) THEN Refused(p, 401)
  ELSE IF req.database = NoDatabaseHeader THEN Refused(p, 400)
  ELSE
    LET d == req.database
        l == Lookup(p, d)
    IN IF ~l.found THEN Refused(p, 404)
       ELSE LET r == route(p.platform, l.s, req)
            IN [status |-> r.status, issued |-> r.issued, error |-> r.error,
                p |-> IF l.current THEN [p EXCEPT !.databases[d] = r.s]
                      ELSE [p EXCEPT !.server.databases[d].s = r.s]]

----------------------------------------------------------------------------
\* The sequential caller: one task that calls NativeSQL, the handle and the
\* plugin bridge, one call after the other.  A call and the request it sends
\* are one step; transaction() takes one step per await.

Idle == [pc |-> "idle"]
Workers == 1..NumWorkers

\* The sequential caller works on one logical database.
Main == "a"
InitFiles ==
  {f \in [Databases -> {Closed(D) : D \in SUBSET Rows}] :
     \A d \in Databases \ {Main} : f[d] = Closed({})}

\* NativeSQL.connect calls: none is pending.
Callers == 1..NumCallers
NoCalls == [k \in Callers |-> [pc |-> "idle"]]

\* The callers of the handle and of the session leave the server lifecycle
\* alone: their requests carry the token and reach the session registered
\* under the name.
AtRest ==
  /\ platform = "ios"
  /\ server = NoServer(0)
  /\ opened = [d \in Databases |-> 0]
  /\ calls = NoCalls

Init ==
  /\ AtRest
  /\ databases \in InitFiles
  /\ connections = [d \in Databases |-> NoConnection]
  /\ task = Idle
  /\ requests = [w \in Workers |-> Idle]
  /\ last = [op |-> "init"]

\* What a step on the session of d leaves behind in last.
Met(op, d, r) ==
  [op |-> op, database |-> d, before |-> databases[d],
   handle |-> connections[d], err |-> r.err, issued |-> r.issued]

Called(op, d, r) ==
  [op |-> op, database |-> d, before |-> databases[d],
   handle |-> connections[d], thrown |-> r.thrown, sent |-> r.sent,
   issued |-> r.issued, err |-> r.error]

\* NativeSQL.connect(options)
Connect(d) ==
  /\ task.pc = "idle"
  /\ ~connections[d].present
  /\ databases' = [databases EXCEPT ![d] = plugin_connect(databases[d])]
  /\ connections' = [connections EXCEPT ![d] = SQLConnection]
  /\ last' = [op |-> "connect", database |-> d]
  /\ UNCHANGED <<task, requests>>
  /\ UNCHANGED lifecycle

\* NativeSQL.disconnect(database)
Disconnect(d) ==
  /\ task.pc = "idle"
  /\ connections[d].present
  /\ databases' = [databases EXCEPT ![d] = plugin_disconnect(databases[d])]
  /\ connections' = [connections EXCEPT ![d] = NoConnection]
  /\ last' = [op |-> "disconnect", database |-> d]
  /\ UNCHANGED <<task, requests>>
  /\ UNCHANGED lifecycle

\* Plugin bridge: CapgoCapacitorFastSql.beginTransaction({database})
PluginBeginTransaction(d) ==
  /\ task.pc = "idle"
  /\ LET r == plugin_beginTransaction(databases[d])
     IN /\ databases' = [databases EXCEPT ![d] = r.s]
        /\ last' = Met("beginTransaction", d, r)
  /\ UNCHANGED <<connections, task, requests>>
  /\ UNCHANGED lifecycle

\* Plugin bridge: CapgoCapacitorFastSql.commitTransaction({database})
PluginCommitTransaction(d) ==
  /\ task.pc = "idle"
  /\ \E fault \in Faults :
       LET r == plugin_commitTransaction(databases[d], fault)
       IN /\ databases' = [databases EXCEPT ![d] = r.s]
          /\ last' = Met("commitTransaction", d, r)
  /\ UNCHANGED <<connections, task, requests>>
  /\ UNCHANGED lifecycle

\* Plugin bridge: CapgoCapacitorFastSql.rollbackTransaction({database})
PluginRollbackTransaction(d) ==
  /\ task.pc = "idle"
  /\ LET r == plugin_rollbackTransaction(databases[d])
     IN /\ databases' = [databases EXCEPT ![d] = r.s]
        /\ last' = Met("rollbackTransaction", d, r)
  /\ UNCHANGED <<connections, task, requests>>
  /\ UNCHANGED lifecycle

\* A call on the handle of d, outside transaction().
Apply(op, d, r) ==
  /\ databases' = [databases EXCEPT ![d] = r.s]
  /\ connections' = [connections EXCEPT ![d] = r.c]
  /\ last' = Called(op, d, r)
  /\ UNCHANGED <<task, requests>>
  /\ UNCHANGED lifecycle

ConnExecute(d) ==
  /\ task.pc = "idle"
  /\ connections[d].present
  /\ \E stmt \in Statements, fault \in Faults :
       Apply("conn.execute", d,
             conn_execute(connections[d], databases[d], stmt, fault))

ConnBeginTransaction(d) ==
  /\ task.pc = "idle"
  /\ connections[d].present
  /\ Apply("conn.beginTransaction", d,
           conn_beginTransaction(connections[d], databases[d]))

ConnCommit(d) ==
  /\ task.pc = "idle"
  /\ connections[d].present
  /\ \E fault \in Faults :
       Apply("conn.commit", d, conn_commit(connections[d], databases[d], fault))

ConnRollback(d) ==
  /\ task.pc = "idle"
  /\ connections[d].present
  /\ Apply("conn.rollback", d, conn_rollback(connections[d], databases[d]))

BatchOperations == UNION {[1..n -> DataStatements] : n \in 0..MaxBatch}

ConnExecuteBatch(d) ==
  /\ task.pc = "idle"
  /\ connections[d].present
  /\ \E ops \in BatchOperations :
       LET r == conn_executeBatch(connections[d], databases[d], ops)
       IN /\ databases' = [databases EXCEPT ![d] = r.s]
          /\ last' = [op |-> "conn.executeBatch", database |-> d,
                      before |-> databases[d], ops |-> ops,
                      stepped |-> r.stepped, status |-> r.status,
                      err |-> r.error, results |-> r.results,
                      thrown |-> r.thrown]
  /\ UNCHANGED <<connections, task, requests>>
  /\ UNCHANGED lifecycle

----------------------------------------------------------------------------
\* SQLConnection.transaction(callback).  The body is caller code: it issues
\* statements on the handle, may call transaction() again, raises or returns.
\* A statement call that fails ends the body with that failure.

BodyFailure == <<"body", "raise">>

\* How transaction() settled, left in last.
Settled(how, thrown, rollbackThrown, t) ==
  [op |-> "transaction", database |-> t.database, settled |-> how,
   thrown |-> thrown, caught |-> t.caught, rollbackThrown |-> rollbackThrown,
   pre |-> t.pre, wrote |-> t.wrote, nested |-> t.nested, began |-> t.began]

\* await this.beginTransaction(isolationLevel), outside the try block
TxBegin(d) ==
  /\ task.pc = "idle"
  /\ connections[d].present
  /\ LET r == conn_beginTransaction(connections[d], databases[d])
         t == [pc |-> "body", database |-> d, caught |-> NoFailure,
               pre |-> databases[d], wrote |-> {}, nested |-> "no",
               began |-> r.thrown = NoFailure]
     IN /\ databases' = [databases EXCEPT ![d] = r.s]
        /\ connections' = [connections EXCEPT ![d] = r.c]
        /\ IF r.thrown = NoFailure
           THEN /\ task' = t
                /\ last' = Called("transaction.begin", d, r)
           ELSE /\ task' = Idle
                /\ last' = Settled("rejected", r.thrown, NoFailure, t)
  /\ UNCHANGED requests
  /\ UNCHANGED lifecycle

\* the body awaits conn.execute / conn.run / conn.query
TxBodyExecute ==
  /\ task.pc = "body"
  /\ \E stmt \in DataStatements, fault \in Faults :
       LET d == task.database
           r == conn_execute(connections[d], databases[d], stmt, fault)
       IN /\ databases' = [databases EXCEPT ![d] = r.s]
          /\ connections' = [connections EXCEPT ![d] = r.c]
          /\ last' = Called("body.execute", d, r)
          /\ task' = IF r.thrown = NoFailure
                     THEN [task EXCEPT !.wrote = task.wrote \cup {stmt[2]}]
                     ELSE [task EXCEPT !.pc = "catch", !.caught = r.thrown]
  /\ UNCHANGED requests
  /\ UNCHANGED lifecycle

\* the body raises an error of its own
TxBodyRaise ==
  /\ task.pc = "body"
  /\ task' = [task EXCEPT !.pc = "catch", !.caught = BodyFailure]
  /\ last' = [op |-> "body.raise", database |-> task.database]
  /\ UNCHANGED <<databases, connections, requests>>
  /\ UNCHANGED lifecycle

\* the body awaits conn.transaction(inner): the inner call begins at
\* beginTransaction, and the body lets its failure propagate
TxBodyNested ==
  /\ task.pc = "body"
  /\ LET d == task.database
         r == conn_beginTransaction(connections[d], databases[d])
     IN /\ databases' = [databases EXCEPT ![d] = r.s]
        /\ connections' = [connections EXCEPT ![d] = r.c]
        /\ last' = Called("body.transaction", d, r)
        /\ task' = IF r.thrown = NoFailure
                   THEN [task EXCEPT !.nested = "merged"]
                   ELSE [task EXCEPT !.pc = "catch", !.caught = r.thrown,
                                     !.nested = "rejected"]
  /\ UNCHANGED requests
  /\ UNCHANGED lifecycle

\* the body returns: await this.commit(); return result
TxCommit ==
  /\ task.pc = "body"
  /\ \E fault \in Faults :
       LET d == task.database
           r == conn_commit(connections[d], databases[d], fault)
       IN /\ databases' = [databases EXCEPT ![d] = r.s]
          /\ connections' = [connections EXCEPT ![d] = r.c]
          /\ IF r.thrown = NoFailure
             THEN /\ task' = Idle
                  /\ last' = Settled("resolved", NoFailure, NoFailure, task)
             ELSE /\ task' = [task EXCEPT !.pc = "catch", !.caught = r.thrown]
                  /\ last' = Called("transaction.commit", d, r)
  /\ UNCHANGED requests
  /\ UNCHANGED lifecycle

\* catch (error) { await this.rollback(); throw error; }
TxCatch ==
  /\ task.pc = "catch"
  /\ LET d == task.database
         r == transaction_catch(connections[d], databases[d], task.caught)
     IN /\ databases' = [databases EXCEPT ![d] = r.s]
        /\ connections' = [connections EXCEPT ![d] = r.c]
        /\ task' = Idle
        /\ last' = Settled("rejected", r.thrown, r.rollbackThrown, task)
  /\ UNCHANGED requests
  /\ UNCHANGED lifecycle

Next ==
  \/ Connect(Main)
  \/ Disconnect(Main)
  \/ PluginBeginTransaction(Main)
  \/ PluginCommitTransaction(Main)
  \/ PluginRollbackTransaction(Main)
  \/ ConnExecute(Main)
  \/ ConnBeginTransaction(Main)
  \/ ConnCommit(Main)
  \/ ConnRollback(Main)
  \/ TxBegin(Main)
  \/ TxBodyExecute
  \/ TxBodyRaise
  \/ TxBodyNested
  \/ TxCommit
  \/ TxCatch

Spec == Init /\ [][Next]_vars

\* The caller that sends batches, outside and inside transactions it opens
\* on the handle.
NextBatch ==
  \/ Connect(Main)
  \/ ConnBeginTransaction(Main)
  \/ ConnCommit(Main)
  \/ ConnRollback(Main)
  \/ ConnExecuteBatch(Main)

SpecBatch == Init /\ [][NextBatch]_vars

----------------------------------------------------------------------------
\* Two tasks on one handle: one runs transaction(), the other awaits plain
\* execute calls on the same SQLConnection at any moment, also between the
\* awaits of the first.  The answer of a plain execute stays in requests,
\* with whether the engine had a transaction open when the statement
\* reached it.

\* connection.execute("INSERT ...") of the second task
TaskExecute(w, d) ==
  /\ requests[w].pc = "idle"
  /\ connections[d].present
  /\ \E stmt \in {Insert(r) : r \in Rows}, fault \in Faults :
       LET r == conn_execute(connections[d], databases[d], stmt, fault)
       IN /\ databases' = [databases EXCEPT ![d] = r.s]
          /\ connections' = [connections EXCEPT ![d] = r.c]
          /\ requests' = [requests EXCEPT ![w] =
               [pc |-> "done", kind |-> "execute", database |-> d,
                ops |-> <<stmt>>, error |-> r.error,
                status |-> IF r.thrown = NoFailure THEN 200 ELSE 500,
                joined |-> databases[d].tx]]
          /\ last' = Called("task.execute", d, r)
  /\ UNCHANGED task
  /\ UNCHANGED lifecycle

NextTasks ==
  \/ Connect(Main)
  \/ TxBegin(Main)
  \/ TxBodyExecute
  \/ TxBodyRaise
  \/ TxCommit
  \/ TxCatch
  \/ \E w \in Workers : TaskExecute(w, Main)

SpecTasks == Init /\ [][NextTasks]_vars

----------------------------------------------------------------------------
\* The server under concurrent requests.  Each request runs on a worker
\* thread of its own (Telegraph's worker queue, NanoHTTPD's thread per
\* connection); SQLDatabase takes no lock, so the steps of the handlers
\* interleave: the read of the flag in the guard, the engine call (atomic, the
\* engine serializes its calls), the write of the flag.  A worker handles one
\* request; its answer stays in requests.

\* The sessions a sequence of calls leaves open: any flag, any engine
\* transaction state, rows pending only inside an engine transaction.
OpenSessions ==
  {s \in [registered : {TRUE}, isOpen : {TRUE}, inTransaction : BOOLEAN,
          tx : BOOLEAN, data : SUBSET Rows, durable : SUBSET Rows] :
     /\ s.durable \subseteq s.data
     /\ ~s.tx => s.data = s.durable}

InitServer ==
  /\ AtRest
  /\ databases \in {f \in [Databases -> OpenSessions] :
                      \A d \in Databases \ {Main} : f[d] = SQLDatabase({})}
  /\ connections = [d \in Databases |-> NoConnection]
  /\ task = Idle
  /\ requests = [w \in Workers |-> Idle]
  /\ last = [op |-> "init"]

TransactionRoutes == {"begin", "commit", "rollback"}

Answer(w, status, error) ==
  [requests EXCEPT ![w] = [@ EXCEPT !.pc = "done", !.status = status,
                                    !.error = error]]

\* serve / route: the request passed the token check and databases[name]
\* gave its session; the handler is about to call into it.
Arrive(w, kind, d, ops) ==
  /\ requests[w].pc = "idle"
  /\ databases[d].registered
  /\ requests' = [requests EXCEPT ![w] =
       [pc |-> IF kind \in TransactionRoutes THEN "guard" ELSE "execute",
        kind |-> kind, database |-> d, ops |-> ops, status |-> 0,
        error |-> NoError]]
  /\ UNCHANGED <<databases, connections, task, last>>
  /\ UNCHANGED lifecycle

ArriveTransaction(w) ==
  \E kind \in TransactionRoutes, d \in Databases : Arrive(w, kind, d, <<>>)

ArriveBegin(w) == \E d \in Databases : Arrive(w, "begin", d, <<>>)

ArriveExecute(w) ==
  \E d \in Databases, stmt \in Statements : Arrive(w, "execute", d, <<stmt>>)

ArriveBatch(w) ==
  \E d \in Databases, ops \in {o \in BatchOperations : Len(o) = 2} : Arrive(w, "batch", d, ops)

\* guard !inTransaction / guard inTransaction: the read of the flag
Guard(w) ==
  /\ requests[w].pc = "guard"
  /\ LET q == requests[w]
         s == databases[q.database]
     IN requests' =
          IF q.kind = "begin" /\ s.inTransaction
          THEN Answer(w, 500, "transactionAlreadyActive")
          ELSE IF q.kind # "begin" /\ ~s.inTransaction
          THEN Answer(w, 500, "noTransactionActive")
          ELSE [requests EXCEPT ![w].pc = "execute"]
  /\ UNCHANGED <<databases, connections, task, last>>
  /\ UNCHANGED lifecycle

\* try execute(...): one statement handed to the engine.  A BEGIN that meets
\* an open transaction fails at the engine (on Android db.beginTransaction()
\* from a second thread waits for the connection instead: it does not
\* succeed either while the first transaction is open).
Step(w) ==
  /\ requests[w].pc = "execute"
  /\ \E fault \in Faults :
       LET q == requests[w]
           s == databases[q.database]
           r == CASE q.kind = "begin" -> execute(s, Begin, "none")
                  [] q.kind = "commit" -> execute(s, Commit, fault)
                  [] q.kind = "rollback" -> execute(s, Rollback, "none")
                  [] q.kind = "batch" -> execute(s, Head(q.ops), "none")
                  [] OTHER -> execute(s, Head(q.ops), fault)
       IN /\ databases' = [databases EXCEPT ![q.database] = r.s]
          /\ requests' =
               IF q.kind \in TransactionRoutes
               THEN IF Throws(r) THEN Answer(w, 500, r.err)
                    ELSE [requests EXCEPT ![w].pc = "set"]
               ELSE IF r.err # NoError THEN Answer(w, 500, r.err)
               ELSE IF Len(q.ops) = 1 THEN Answer(w, 200, NoError)
               ELSE [requests EXCEPT ![w].ops = Tail(q.ops)]
  /\ UNCHANGED <<connections, task, last>>
  /\ UNCHANGED lifecycle

\* inTransaction = true / false: the write of the flag, then the 200 answer
Set(w) ==
  /\ requests[w].pc = "set"
  /\ LET q == requests[w]
     IN /\ databases' = [databases EXCEPT ![q.database] =
                           setFlag(@, q.kind = "begin")]
        /\ requests' = Answer(w, 200, NoError)
  /\ UNCHANGED <<connections, task, last>>
  /\ UNCHANGED lifecycle

\* Inside beginTransaction, commitTransaction or rollbackTransaction of the
\* session of d: past the guard, not yet returned.
InProgress(d) ==
  {w \in Workers : /\ requests[w].pc \in {"execute", "set"}
                   /\ requests[w].kind \in TransactionRoutes
                   /\ requests[w].database = d}

\* Plugin disconnect on the bridge thread: db.close(), databases.remove(name).
PluginDisconnect(d) ==
  /\ databases[d].registered
  /\ databases' = [databases EXCEPT ![d] = plugin_disconnect(@)]
  /\ last' = [op |-> "disconnect", database |-> d,
              inFlight |-> InProgress(d) # {}]
  /\ UNCHANGED <<connections, task, requests>>
  /\ UNCHANGED lifecycle

NextServer ==
  \/ \E w \in Workers : ArriveTransaction(w)
  \/ \E w \in Workers : ArriveExecute(w)
  \/ \E w \in Workers : ArriveBatch(w)
  \/ \E w \in Workers : Guard(w)
  \/ \E w \in Workers : Step(w)
  \/ \E w \in Workers : Set(w)
  \/ \E d \in Databases : PluginDisconnect(d)

SpecServer == InitServer /\ [][NextServer]_vars

NextBegin ==
  \/ \E w \in Workers : ArriveBegin(w)
  \/ \E w \in Workers : Guard(w)
  \/ \E w \in Workers : Step(w)
  \/ \E w \in Workers : Set(w)

SpecBegin == InitServer /\ [][NextBegin]_vars

----------------------------------------------------------------------------
\* The plugin's lifecycle: bridge calls connect, disconnect and getServerInfo
\* in any order (the bridge runs one plugin call at a time), NativeSQL's
\* connect and disconnect on top of them, and requests of any client to the
\* running server.

Plugin ==
  [platform |-> platform, server |-> server, databases |-> databases,
   opened |-> opened]

SetPlugin(q) ==
  /\ databases' = q.databases
  /\ server' = q.server
  /\ opened' = q.opened
  /\ UNCHANGED platform

InitPlugin ==
  /\ platform \in Platforms
  /\ server = NoServer(0)
  /\ opened = [d \in Databases |-> 0]
  /\ calls = NoCalls
  /\ databases = [d \in Databases |-> Closed({})]
  /\ connections = [d \in Databases |-> NoConnection]
  /\ task = Idle
  /\ requests = [w \in Workers |-> Idle]
  /\ last = [op |-> "init"]

\* What connect can meet: sqlite3_open succeeds or not, the constructor's
\* PRAGMA succeeds or not, the server's port can be bound or not, the port
\* findAvailablePort returns.
Environments ==
  [open : BOOLEAN, pragma : BOOLEAN, start : BOOLEAN, port : Ports]

\* SQLDatabase(path): sqlite3_open / openOrCreateDatabase on the plain file;
\* no key is applied whatever the options say.
OpenedWithKey(options) == FALSE

ConnectIn(d, environments) ==
  /\ server.exists \/ server.created < MaxServers
  /\ \E env \in environments, encrypted \in BOOLEAN :
       /\ env.pragma \/ opened[d] < MaxHandles
       /\ LET r == Plugin_connect(Plugin, d, env)
              options == [encrypted |-> encrypted]
          IN /\ SetPlugin(r.p)
             /\ last' = [op |-> "plugin.connect", database |-> d,
                         options |-> options, resolved |-> r.resolved,
                         info |-> r.info, keyed |-> OpenedWithKey(options),
                         wasOpen |-> databases[d].registered]
  /\ UNCHANGED <<connections, task, requests, calls>>

\* CapgoCapacitorFastSql.connect(options) over the bridge
BridgeConnect(d) == ConnectIn(d, Environments)

\* a connect whose database opens
OpeningConnect(d) ==
  ConnectIn(d, {env \in Environments : env.open /\ env.pragma})

\* CapgoCapacitorFastSql.disconnect({database}) over the bridge
BridgeDisconnect(d) ==
  /\ LET r == Plugin_disconnect(Plugin, d)
     IN /\ SetPlugin(r.p)
        /\ last' = [op |-> "plugin.disconnect", database |-> d,
                    resolved |-> r.resolved, error |-> r.error]
  /\ UNCHANGED <<connections, task, requests, calls>>

BridgeGetServerInfo(d) ==
  /\ LET r == Plugin_getServerInfo(Plugin, d)
     IN /\ SetPlugin(r.p)
        /\ last' = [op |-> "plugin.getServerInfo", database |-> d,
                    resolved |-> r.resolved, info |-> r.info]
  /\ UNCHANGED <<connections, task, requests, calls>>

\* NativeSQL.connect(options), the call running alone
NativeConnect(d) ==
  /\ server.exists \/ server.created < MaxServers
  /\ IF connections[d].present
     THEN /\ last' = [op |-> "native.connect", database |-> d,
                      thrown |-> FALSE]
          /\ UNCHANGED <<databases, server, opened, platform, connections>>
     ELSE \E env \in Environments :
            /\ env.pragma \/ opened[d] < MaxHandles
            /\ LET r == Plugin_connect(Plugin, d, env)
               IN /\ SetPlugin(r.p)
                  /\ connections' =
                       IF r.resolved
                       THEN [connections EXCEPT ![d] = SQLConnection]
                       ELSE connections
                  /\ last' = [op |-> "native.connect", database |-> d,
                              thrown |-> ~r.resolved]
  /\ UNCHANGED <<task, requests, calls>>

\* NativeSQL.disconnect(database)
NativeDisconnect(d) ==
  /\ IF ~connections[d].present
     THEN /\ last' = [op |-> "native.disconnect", database |-> d,
                      thrown |-> TRUE]
          /\ UNCHANGED <<databases, server, opened, platform, connections>>
     ELSE LET r == Plugin_disconnect(Plugin, d)
          IN /\ SetPlugin(r.p)
             /\ connections' = IF r.resolved
                               THEN [connections EXCEPT ![d] = NoConnection]
                               ELSE connections
             /\ last' = [op |-> "native.disconnect", database |-> d,
                         thrown |-> ~r.resolved]
  /\ UNCHANGED <<task, requests, calls>>

\* The requests a client can send: any token an instance of this run can
\* have, with or without the Bearer scheme, any database header, the routes
\* (on Android serve() also sees the paths that are no route).
Authorizations ==
  {NoAuthorization} \cup {Bearer(n) : n \in 1..MaxServers}
    \cup {<<"Basic", n>> : n \in 1..MaxServers}
Paths == IF platform = "android" THEN Routes \cup {"/other"} ELSE Routes
ClientRequests ==
  {[authorization |-> h, database |-> d, path |-> path, stmt |-> stmt,
    ops |-> <<stmt>>, fault |-> "none", method |-> "POST",
    body |-> "valid"] :
     h \in Authorizations, d \in Databases \cup {NoDatabaseHeader},
     path \in Paths, stmt \in {Insert(1)}}

\* A request that reaches the listening server.
Serve ==
  /\ server.running
  /\ \E req \in ClientRequests :
       LET r == serve(Plugin, req)
       IN /\ SetPlugin(r.p)
          /\ last' = [op |-> "serve", authorization |-> req.authorization,
                      database |-> req.database, path |-> req.path,
                      status |-> r.status, issued |-> r.issued]
  /\ UNCHANGED <<connections, task, requests, calls>>

NextPlugin ==
  \/ \E d \in Databases : BridgeConnect(d)
  \/ \E d \in Databases : BridgeDisconnect(d)
  \/ \E d \in Databases : BridgeGetServerInfo(d)
  \/ \E d \in Databases : NativeConnect(d)
  \/ \E d \in Databases : NativeDisconnect(d)

SpecPlugin == InitPlugin /\ [][NextPlugin]_vars

\* The plugin's lifecycle with the requests the running server answers.
NextServe ==
  \/ \E d \in Databases : OpeningConnect(d)
  \/ \E d \in Databases : BridgeDisconnect(d)
  \/ Serve

SpecServe == InitPlugin /\ [][NextServe]_vars

\* The requests of any client: POST or OPTIONS; a body that is the JSON
\* object the route expects ("valid"), a JSON object without the "statement"
\* / "operations" member, or a text that is no JSON; a statement the engine
\* runs or refuses; batches with and without an operation that lacks its
\* statement; no token, or a token an instance can have.
AnyRequests ==
  {[authorization |-> h, database |-> d, path |-> x.path, stmt |-> x.stmt,
    ops |-> x.ops, fault |-> "none", method |-> m, body |-> x.body] :
     h \in {NoAuthorization} \cup {Bearer(n) : n \in 1..MaxServers},
     d \in Databases \cup {NoDatabaseHeader},
     m \in {"POST", "OPTIONS"},
     x \in [path : {"/execute"}, stmt : {Insert(1), Malformed}, ops : {<<>>},
            body : {"valid", "noMember", "notJson"}]
          \cup [path : {"/batch"}, stmt : {Insert(1)},
                ops : {<<Insert(1)>>, <<Insert(1), Insert(1)>>,
                       <<NoStatement>>, <<Insert(1), NoStatement>>},
                body : {"valid", "noMember", "notJson"}]
          \cup [path : Paths \ {"/execute", "/batch"}, stmt : {Insert(1)},
                ops : {<<>>}, body : {"valid"}]}

\* A request of any kind that reaches the listening server.
Request ==
  /\ server.running
  /\ \E req \in AnyRequests :
       LET r == serve(Plugin, req)
       IN /\ SetPlugin(r.p)
          /\ last' = [op |-> "request", method |-> req.method,
                      body |-> req.body, authorization |-> req.authorization,
                      database |-> req.database, path |-> req.path,
                      stmt |-> req.stmt, ops |-> req.ops,
                      status |-> r.status, issued |-> r.issued,
                      error |-> r.error]
  /\ UNCHANGED <<connections, task, requests, calls>>

\* The server of a plugin that has one database open, and the requests it
\* answers, for that database and for the one that is not open.
NextRequests ==
  \/ OpeningConnect(Main)
  \/ Request

SpecRequests == InitPlugin /\ [][NextRequests]_vars

----------------------------------------------------------------------------
\* A database that is disconnected while a transaction is active on it and
\* connected again by the next call, next to the other connects and
\* disconnects; the requests are those a handle sends, with the token that
\* connect returned.

\* disconnect({database}) of a database whose Transaction Flag is set; the
\* rows the transaction had written and not committed are noted.
DisconnectInTransaction(d) ==
  /\ databases[d].registered
  /\ databases[d].inTransaction
  /\ LET r == Plugin_disconnect(Plugin, d)
     IN /\ SetPlugin(r.p)
        /\ last' = [op |-> "disconnect.active", database |-> d,
                    pending |-> databases[d].data \ databases[d].durable]
  /\ UNCHANGED <<connections, task, requests, calls>>

\* connect({database}) of the database just disconnected
ConnectAgain(d) ==
  /\ last.op = "disconnect.active"
  /\ last.database = d
  /\ opened[d] < MaxHandles
  /\ server.exists \/ server.created < MaxServers
  /\ \E port \in Ports :
       LET env == [open |-> TRUE, pragma |-> TRUE, start |-> TRUE, port |-> port]
           r == Plugin_connect(Plugin, d, env)
       IN /\ SetPlugin(r.p)
          /\ last' = [op |-> "connect.again", database |-> d,
                      pending |-> last.pending, info |-> r.info,
                      others |-> server.exists]
  /\ UNCHANGED <<connections, task, requests, calls>>

\* A request of the handle of d: beginTransaction() or execute(INSERT).
HandleRequest(d) ==
  /\ server.running
  /\ databases[d].registered
  /\ \E path \in {"/transaction/begin", "/execute"}, row \in Rows :
       LET req == [authorization |-> Bearer(server.token), database |-> d,
                   path |-> path, stmt |-> Insert(row), ops |-> <<>>,
                   fault |-> "none", method |-> "POST", body |-> "valid"]
           r == serve(Plugin, req)
       IN /\ SetPlugin(r.p)
          /\ last' = [op |-> "handle.request", database |-> d, path |-> path,
                      status |-> r.status, error |-> r.error]
  /\ UNCHANGED <<connections, task, requests, calls>>

NextReconnect ==
  \/ \E d \in Databases : OpeningConnect(d)
  \/ \E d \in Databases : BridgeDisconnect(d)
  \/ \E d \in Databases : DisconnectInTransaction(d)
  \/ \E d \in Databases : ConnectAgain(d)
  \/ \E d \in Databases : HandleRequest(d)

SpecReconnect == InitPlugin /\ [][NextReconnect]_vars

----------------------------------------------------------------------------
\* The Transport Server's own lifecycle: start() and stop() of the instance
\* the plugin holds, called in any order next to the plugin's connects and
\* disconnects.  isRunning is the field running; binding and marking are one
\* step of start().

\* start() that marks the server before it binds.
server_start_MarksFirst(srv, canBind) ==
  [srv |-> [srv EXCEPT !.running = TRUE], thrown |-> ~srv.running /\ ~canBind]

\* start(): guard !isRunning else return; try server.start(port:interface:);
\* isRunning = true.  A bind that throws leaves isRunning as it was.
server_start(srv, canBind) ==
  IF srv.running THEN [srv |-> srv, thrown |-> FALSE]
  ELSE IF ~canBind THEN [srv |-> srv, thrown |-> TRUE]
  ELSE [srv |-> [srv EXCEPT !.running = TRUE], thrown |-> FALSE]

\* stop(): server?.stop(); isRunning = false
server_stop(srv) == [srv EXCEPT !.running = FALSE]

\* server.start() on the instance.  On Android start() is NanoHTTPD's and
\* the plugin calls it on a new instance only; on iOS the method has its
\* own guard and is called in any state.
ServerStart ==
  /\ server.exists
  /\ platform = "ios" \/ ~server.running
  /\ \E canBind \in BOOLEAN :
       LET r == server_start(server, canBind)
       IN /\ server' = r.srv
          /\ last' = [op |-> "server.start", bound |-> canBind,
                      thrown |-> r.thrown]
  /\ UNCHANGED <<databases, connections, task, requests, platform, opened,
                 calls>>

\* server.stop() on the instance
ServerStop ==
  /\ server.exists
  /\ server' = server_stop(server)
  /\ last' = [op |-> "server.stop"]
  /\ UNCHANGED <<databases, connections, task, requests, platform, opened,
                 calls>>

NextTransport ==
  \/ \E d \in Databases : BridgeConnect(d)
  \/ \E d \in Databases : BridgeDisconnect(d)
  \/ ServerStart
  \/ ServerStop

SpecTransport == InitPlugin /\ [][NextTransport]_vars

----------------------------------------------------------------------------
\* NativeSQL.connect calls that overlap.  connect is async: it checks the
\* cache, awaits the plugin's connect, and only then makes the SQLConnection
\* and stores it; another call can run its check during the await.  Caller k
\* makes one call; the handle it makes is object k.

SQLConnectionObject(k) == [present |-> TRUE, inTransaction |-> FALSE, id |-> k]

\* if (this.connections.has(options.database)) return this.connections.get(...)
\* else the call goes to the plugin and waits
CallConnect(k, d) ==
  /\ calls[k].pc = "idle"
  /\ calls' = [calls EXCEPT ![k] =
       IF connections[d].present
       THEN [pc |-> "done", database |-> d, returned |-> connections[d].id]
       ELSE [pc |-> "awaiting", database |-> d, returned |-> 0]]
  /\ last' = [op |-> "native.connect.call", database |-> d]
  /\ UNCHANGED <<databases, connections, task, requests, platform, server,
                 opened>>

\* the plugin's connect runs and the call resumes: new SQLConnection(
\* info.database, info.port, info.token),
\* this.connections.set(options.database, connection), return connection
ResumeConnect(k) ==
  /\ calls[k].pc = "awaiting"
  /\ \E env \in Environments :
       /\ env.pragma \/ opened[calls[k].database] < MaxHandles
       /\ LET d == calls[k].database
              r == Plugin_connect(Plugin, d, env)
          IN /\ SetPlugin(r.p)
             /\ connections' =
                  IF r.resolved
                  THEN [connections EXCEPT ![d] =
                          SQLConnectionObject(k) @@ [token |-> r.info.token]]
                  ELSE connections
             /\ calls' = [calls EXCEPT ![k] =
                  IF r.resolved
                  THEN [pc |-> "done", database |-> d, returned |-> k]
                  ELSE [pc |-> "failed", database |-> d, returned |-> 0]]
             /\ last' = [op |-> "native.connect.resume", database |-> d]
  /\ UNCHANGED <<task, requests>>

NextNative ==
  \/ \E k \in Callers, d \in Databases : CallConnect(k, d)
  \/ \E k \in Callers : ResumeConnect(k)

SpecNative == InitPlugin /\ [][NextNative]_vars

\* NativeSQL.connect, disconnect, getConnection and disconnectAll calls that
\* overlap.  disconnect is async as well: it reads the cache, awaits the
\* plugin's disconnect, and deletes the entry after the await; the plugin
\* runs the call on its own thread, and other calls run between the plugin's
\* answer and the resumption.  Caller k makes one call.

\* const connection = this.connections.get(database);
\* if (!connection) throw ...; else the call goes to the plugin and waits
CallDisconnect(k, d) ==
  /\ calls[k].pc = "idle"
  /\ calls' = [calls EXCEPT ![k] =
       IF connections[d].present
       THEN [pc |-> "disconnecting", database |-> d, returned |-> 0]
       ELSE [pc |-> "failed", database |-> d, returned |-> 0]]
  /\ last' = [op |-> "native.disconnect.call", database |-> d]
  /\ UNCHANGED <<databases, connections, task, requests, platform, server,
                 opened>>

\* the plugin's disconnect runs
RunDisconnect(k) ==
  /\ calls[k].pc = "disconnecting"
  /\ LET d == calls[k].database
         r == Plugin_disconnect(Plugin, d)
     IN /\ SetPlugin(r.p)
        /\ calls' = [calls EXCEPT ![k].pc =
                       IF r.resolved THEN "disconnected" ELSE "failed"]
        /\ last' = [op |-> "plugin.disconnect", database |-> d,
                    resolved |-> r.resolved, error |-> r.error]
  /\ UNCHANGED <<connections, task, requests>>

\* the call resumes: this.connections.delete(database)
ResumeDisconnect(k) ==
  /\ calls[k].pc = "disconnected"
  /\ connections' = [connections EXCEPT ![calls[k].database] = NoConnection]
  /\ calls' = [calls EXCEPT ![k].pc = "closed"]
  /\ last' = [op |-> "native.disconnect.resume",
              database |-> calls[k].database]
  /\ UNCHANGED <<databases, task, requests, platform, server, opened>>

\* getConnection(database): this.connections.get(database) || null
GetConnection(d) ==
  /\ last' = [op |-> "native.getConnection", database |-> d,
              returned |-> connections[d]]
  /\ UNCHANGED <<databases, connections, task, requests, calls, platform,
                 server, opened>>

\* disconnectAll(): the keys of the cache are read, and disconnect(db) of
\* each runs up to its await: all the plugin calls are on their way.
CallDisconnectAll ==
  /\ task.pc = "idle"
  /\ task' = [pc |-> "all",
              sent |-> {d \in Databases : connections[d].present},
              answered |-> {}, removed |-> {}, rejected |-> FALSE]
  /\ last' = [op |-> "native.disconnectAll.call"]
  /\ UNCHANGED <<databases, connections, requests, calls, platform, server,
                 opened>>

\* the plugin's disconnect of one of them runs
RunDisconnectAll(d) ==
  /\ task.pc = "all"
  /\ d \in task.sent \ task.answered
  /\ LET r == Plugin_disconnect(Plugin, d)
     IN /\ SetPlugin(r.p)
        /\ task' = [task EXCEPT !.answered = @ \cup {d},
                                !.removed = IF r.resolved THEN @ ELSE @ \cup {d},
                                !.rejected = @ \/ ~r.resolved]
        /\ last' = [op |-> "plugin.disconnect", database |-> d,
                    resolved |-> r.resolved, error |-> r.error]
  /\ UNCHANGED <<connections, requests, calls>>

\* its disconnect(db) resumes: this.connections.delete(database)
ResumeDisconnectAll(d) ==
  /\ task.pc = "all"
  /\ d \in task.answered \ task.removed
  /\ connections' = [connections EXCEPT ![d] = NoConnection]
  /\ task' = [task EXCEPT !.removed = @ \cup {d}]
  /\ last' = [op |-> "native.disconnect.resume", database |-> d]
  /\ UNCHANGED <<databases, requests, calls, platform, server, opened>>

\* Promise.all settles; getOpenDatabases() is read right after.
SettleDisconnectAll ==
  /\ task.pc = "all"
  /\ task.removed = task.sent
  /\ task' = Idle
  /\ last' = [op |-> "native.disconnectAll", resolved |-> ~task.rejected,
              open |-> {d \in Databases : connections[d].present}]
  /\ UNCHANGED <<databases, connections, requests, calls, platform, server,
                 opened>>

NextCalls ==
  \/ \E k \in Callers, d \in Databases : CallConnect(k, d)
  \/ \E k \in Callers : ResumeConnect(k)
  \/ \E k \in Callers, d \in Databases : CallDisconnect(k, d)
  \/ \E k \in Callers : RunDisconnect(k)
  \/ \E k \in Callers : ResumeDisconnect(k)
  \/ \E d \in Databases : GetConnection(d)
  \/ CallDisconnectAll
  \/ \E d \in Databases : RunDisconnectAll(d)
  \/ \E d \in Databases : ResumeDisconnectAll(d)
  \/ SettleDisconnectAll

SpecCalls == InitPlugin /\ [][NextCalls]_vars

----------------------------------------------------------------------------
\* The result of execute: rowsAffected and insertId

\* The counters SQLite keeps on a handle: the rows changed by the INSERT,
\* UPDATE or DELETE completed last (sqlite3_changes) and the row id of the
\* INSERT that succeeded last (sqlite3_last_insert_rowid).  A new handle has
\* changed nothing and inserted nothing.  The specification of the results
\* keeps them with the session.
\* With them, the row the table of the specification of the values holds
\* and the params of the client that inserted it.
Tracked(s) ==
  s @@ [changes |-> 0, lastInsertRowid |-> 0, row |-> <<>>, sent |-> <<>>]

\* What a completed statement leaves in the counters of the handle h; rows
\* is the table before the statement.  A statement that is no INSERT, UPDATE
\* or DELETE, and a statement that failed, leave them as they are.
sqlite3_count(h, stmt, rows) ==
  CASE stmt[1] = "INSERT" ->
         [h EXCEPT !.changes = 1, !.lastInsertRowid = stmt[2]]
    [] stmt[1] = "DELETE" ->
         [h EXCEPT !.changes = IF stmt[2] \in rows THEN 1 ELSE 0]
    [] OTHER -> h

\* insertId: NSNull() on iOS, no member on Android
NoInsertId == 0
NoResult == [rows |-> <<>>, rowsAffected |-> 0, insertId |-> NoInsertId]

\* iOS, the dictionary execute returns: sqlite3_changes(db) and
\* sqlite3_last_insert_rowid(db) of the handle, whatever the statement was.
ios_result(h, stmt) ==
  [rows |-> <<>>, rowsAffected |-> h.changes,
   insertId |-> IF h.lastInsertRowid > 0 THEN h.lastInsertRowid
                ELSE NoInsertId]

\* Android executeQuery: rowsAffected is 0 and there is no insertId.
executeQuery(h, stmt) ==
  [rows |-> <<>>, rowsAffected |-> 0, insertId |-> NoInsertId]

\* Android executeUpdate: executeInsert()'s row id for an INSERT and -1 for
\* any other statement; "SELECT changes()" for rowsAffected.
executeUpdate(h, stmt) ==
  LET result == IF stmt[1] = "INSERT" THEN h.lastInsertRowid ELSE -1
  IN [rows |-> <<>>, rowsAffected |-> h.changes,
      insertId |-> IF result > 0 THEN result ELSE NoInsertId]

\* execute(statement, params) with the result it returns; Android's execute
\* sends a SELECT to executeQuery and the other statements to executeUpdate.
\* The rows a SELECT returns are not part of this result; see
\* getColumnValue for them.
executeResult(plat, h, stmt, fault) ==
  LET r == execute(h, stmt, fault)
      after == IF r.err = NoError THEN sqlite3_count(r.s, stmt, h.data)
               ELSE r.s
  IN [err |-> r.err, s |-> after, issued |-> r.issued,
      result |-> IF r.err # NoError THEN NoResult
                 ELSE IF plat = "ios" THEN ios_result(after, stmt)
                 ELSE IF stmt[1] = "SELECT" THEN executeQuery(after, stmt)
                 ELSE executeUpdate(after, stmt)]

----------------------------------------------------------------------------
\* SQL values, their form on the wire and in the engine

\* A value of the client (SQLValue), of the JSON body, or of a column: its
\* kind t, and the text, the number (n, with f when it has a fraction), the
\* bytes, or the members _type and _data of an object that belong to it.
\* The members kept of an object are _type (type, "" when absent) and _data
\* (kind: absent, a string, or something else; data: the string's
\* characters).
Value(t) ==
  [t |-> t, s |-> "", n |-> 0, f |-> FALSE, b |-> <<>>, type |-> "",
   kind |-> "absent", data |-> <<>>]
Null == Value("null")
Text(x) == [Value("string") EXCEPT !.s = x]
Number(n, f) == [Value("number") EXCEPT !.n = n, !.f = f]
Boolean(x) == [Value("boolean") EXCEPT !.n = IF x THEN 1 ELSE 0]
Binary(bytes) == [Value("binary") EXCEPT !.b = bytes]
Object(type, kind, data) ==
  [Value("object") EXCEPT !.type = type, !.kind = kind, !.data = data]

\* { _type: 'binary', _data: <base64> }
Tagged(data) == Object("binary", "string", data)

\* The bytes and the byte strings the model draws.
MaxBytes == 4
ByteValues == {0, 77, 128, 255}
ByteStrings == UNION {[1..n -> ByteValues] : n \in 0..MaxBytes}

\* Base64 text: a character is its index in the alphabet, 0..63, or Pad for
\* '='.
Pad == 64

\* btoa of the string that has one character per byte: three bytes give four
\* characters, a rest of one or two bytes is padded with '='.
RECURSIVE btoa(_)
btoa(bytes) ==
  IF Len(bytes) = 0 THEN <<>>
  ELSE IF Len(bytes) = 1
  THEN <<bytes[1] \div 4, (bytes[1] % 4) * 16, Pad, Pad>>
  ELSE IF Len(bytes) = 2
  THEN <<bytes[1] \div 4, (bytes[1] % 4) * 16 + bytes[2] \div 16,
         (bytes[2] % 16) * 4, Pad>>
  ELSE <<bytes[1] \div 4, (bytes[1] % 4) * 16 + bytes[2] \div 16,
         (bytes[2] % 16) * 4 + bytes[3] \div 64, bytes[3] % 64>>
         \o btoa(SubSeq(bytes, 4, Len(bytes)))

\* an encoding of the whole groups of three bytes only
uint8ArrayToBase64_NoRest(bytes) ==
  btoa(SubSeq(bytes, 1, Len(bytes) - (Len(bytes) % 3)))
\* uint8ArrayToBase64(bytes)
uint8ArrayToBase64(bytes) == btoa(bytes)

\* The bytes of base64 characters without padding: four characters give
\* three bytes, a rest of two or three characters one or two bytes.
RECURSIVE Octets(_)
Octets(chars) ==
  IF Len(chars) < 2 THEN <<>>
  ELSE IF Len(chars) = 2
  THEN <<chars[1] * 4 + chars[2] \div 16>>
  ELSE IF Len(chars) = 3
  THEN <<chars[1] * 4 + chars[2] \div 16,
         (chars[2] % 16) * 16 + chars[3] \div 4>>
  ELSE <<chars[1] * 4 + chars[2] \div 16,
         (chars[2] % 16) * 16 + chars[3] \div 4,
         (chars[3] % 4) * 64 + chars[4]>>
         \o Octets(SubSeq(chars, 5, Len(chars)))

\* Base64 decoding of the text without the one or two '=' it ends with.
\* strict: the text must have its padding, so a length
\* that is a multiple of four (Data(base64Encoded:) without options);
\* otherwise a text without padding is taken too (atob, Android's
\* Base64.decode).  A '=' before the end, a text whose data characters leave
\* a rest of one, and '=' that does not fill the last group are refused.
Base64Decode(chars, strict) ==
  LET n == Len(chars)
      body == IF n >= 2 /\ chars[n] = Pad /\ chars[n - 1] = Pad
              THEN SubSeq(chars, 1, n - 2)
              ELSE IF n >= 1 /\ chars[n] = Pad THEN SubSeq(chars, 1, n - 1)
              ELSE chars
      padded == Len(chars) # Len(body)
      ok == /\ \A i \in 1..Len(body) : body[i] # Pad
            /\ Len(body) % 4 # 1
            /\ padded => Len(chars) % 4 = 0
            /\ strict => Len(chars) % 4 = 0
  IN [ok |-> ok, bytes |-> IF ok THEN Octets(body) ELSE <<>>]

\* base64ToUint8Array(base64): the bytes atob(base64) gives
base64ToUint8Array(chars) == Base64Decode(chars, FALSE).bytes

\* serializeParams(params): a Uint8Array becomes the tagged object, any
\* other value is sent as it is.
serializeParams(params) ==
  [i \in 1..Len(params) |->
     IF params[i].t = "binary" THEN Tagged(uint8ArrayToBase64(params[i].b))
     ELSE params[i]]

\* value && typeof value === 'object' && value._type === 'binary'
IsTaggedBinary(value) == value.t = "object" /\ value.type = "binary"

\* deserializeResult(result): a row is the sequence of its columns' values.
deserializeResult(result) ==
  [rows |-> [i \in 1..Len(result.rows) |->
               [j \in 1..Len(result.rows[i]) |->
                  IF IsTaggedBinary(result.rows[i][j])
                  THEN Binary(base64ToUint8Array(result.rows[i][j].data))
                  ELSE result.rows[i][j]]],
   rowsAffected |-> IF result.rowsAffected # 0 THEN result.rowsAffected ELSE 0,
   insertId |-> result.insertId]

\* The value a column holds: its storage class and content.
\* NULL, INTEGER, FLOAT, TEXT or BLOB with the number, text or bytes of the
\* value bound.
Column(class, value) == [value EXCEPT !.t = class]
ColumnNull == Column("NULL", Null)

Bound(column) == [err |-> NoError, column |-> column]
BindFailed == [err |-> "bindFailed", column |-> ColumnNull]

\* iOS bindParameter(stmt:index:value:): NSNull, String, NSNumber (boolean,
\* double, integer) and the tagged dictionary whose _data decodes; any other
\* value is SQLITE_ERROR, which execute throws as bindFailed.
ios_bindParameter(value) ==
  CASE value.t = "null" -> Bound(ColumnNull)
    [] value.t = "string" -> Bound(Column("TEXT", value))
    [] value.t = "boolean" -> Bound(Column("INTEGER", value))
    [] value.t = "number" ->
         Bound(Column(IF value.f THEN "FLOAT" ELSE "INTEGER", value))
    [] value.t = "object" ->
         IF /\ value.type = "binary" /\ value.kind = "string"
            /\ Base64Decode(value.data, TRUE).ok
         THEN Bound(Column("BLOB", Binary(Base64Decode(value.data, TRUE).bytes)))
         ELSE BindFailed
    [] OTHER -> BindFailed

\* iOS getColumnValue(stmt:index:).  sqlite3_column_blob returns a null
\* pointer for a BLOB of length zero, and the value is then NSNull().
ios_getColumnValue(column) ==
  CASE column.t = "INTEGER" -> Number(column.n, FALSE)
    [] column.t = "FLOAT" -> Number(column.n, column.f)
    [] column.t = "TEXT" -> Text(column.s)
    [] column.t = "BLOB" ->
         IF column.b = <<>> THEN Null ELSE Tagged(btoa(column.b))
    [] OTHER -> Null

\* Android handleExecute, the loop "Convert to JSArray" for one element of
\* params: null, number (getAsLong), boolean, string; an object is copied
\* member by member with getAsString(), which raises for a member that is no
\* primitive; for an array, no branch puts anything into the JSArray.
android_convert(param) ==
  CASE param.t = "null" -> [err |-> NoError, put |-> TRUE, value |-> Null]
    [] param.t = "number" ->
         [err |-> NoError, put |-> TRUE, value |-> Number(param.n, FALSE)]
    [] param.t \in {"boolean", "string"} ->
         [err |-> NoError, put |-> TRUE, value |-> param]
    [] param.t = "object" ->
         IF param.kind = "object"
         THEN [err |-> "invalidBody", put |-> FALSE, value |-> Null]
         ELSE [err |-> NoError, put |-> TRUE, value |-> param]
    [] OTHER -> [err |-> NoError, put |-> FALSE, value |-> Null]

\* Android bindParams for one element of the JSArray: an object whose _type
\* is "binary" is decoded from _data (getString raises when _data is
\* missing, Base64.decode when the text is no base64) and bound as a blob;
\* any other object is bound as the text of its JSON, "{...}".
android_bindParams(value) ==
  CASE value.t = "null" -> Bound(ColumnNull)
    [] value.t = "string" -> Bound(Column("TEXT", value))
    [] value.t = "number" -> Bound(Column("INTEGER", value))
    [] value.t = "boolean" -> Bound(Column("INTEGER", value))
    [] value.t = "object" ->
         IF value.type = "binary"
         THEN IF value.kind = "string" /\ Base64Decode(value.data, FALSE).ok
              THEN Bound(Column("BLOB",
                                Binary(Base64Decode(value.data, FALSE).bytes)))
              ELSE BindFailed
         ELSE Bound(Column("TEXT", Text("{...}")))
    [] OTHER -> Bound(Column("TEXT", Text("{...}")))

\* Android getColumnValue(cursor, index)
android_getColumnValue(column) ==
  CASE column.t = "INTEGER" -> Number(column.n, FALSE)
    [] column.t = "FLOAT" -> Number(column.n, column.f)
    [] column.t = "TEXT" -> Text(column.s)
    [] column.t = "BLOB" -> Tagged(btoa(column.b))
    [] OTHER -> Null

\* The JSArray Android builds from the params of the body.
RECURSIVE android_params(_)
android_params(params) ==
  IF params = <<>> THEN [err |-> NoError, values |-> <<>>]
  ELSE LET c == android_convert(Head(params))
           rest == android_params(Tail(params))
       IN IF c.err # NoError THEN [err |-> c.err, values |-> <<>>]
          ELSE IF rest.err # NoError THEN rest
          ELSE [err |-> NoError,
                values |-> IF c.put THEN <<c.value>> \o rest.values
                           ELSE rest.values]

\* Binding values to the placeholders 1..Len(values) in order; the first
\* value that cannot be bound ends it.
RECURSIVE bindAll(_, _)
bindAll(plat, values) ==
  IF values = <<>> THEN [err |-> NoError, columns |-> <<>>]
  ELSE LET b == IF plat = "ios" THEN ios_bindParameter(Head(values))
                ELSE android_bindParams(Head(values))
       IN IF b.err # NoError THEN [err |-> b.err, columns |-> <<>>]
          ELSE LET rest == bindAll(plat, Tail(values))
               IN IF rest.err # NoError THEN rest
                  ELSE [err |-> NoError, columns |-> <<b.column>> \o rest.columns]

\* POST /execute of "INSERT INTO t VALUES (?, ..., ?)" with one placeholder
\* per element of params: the row the engine stores, or the error answered.
\* A placeholder no value was bound to holds NULL.
insertRow(plat, params) ==
  LET given == IF plat = "ios" THEN [err |-> NoError, values |-> params]
               ELSE android_params(params)
      bound == bindAll(plat, given.values)
  IN IF given.err # NoError THEN [status |-> 500, error |-> given.err, row |-> <<>>]
     ELSE IF bound.err # NoError
     THEN [status |-> 500, error |-> bound.err, row |-> <<>>]
     ELSE [status |-> 200, error |-> NoError,
           row |-> bound.columns
                     \o [i \in 1..(Len(params) - Len(bound.columns)) |->
                           ColumnNull]]

\* POST /execute of "SELECT * FROM t" when the table holds the row, inserted
\* last with row id 1: the result the server answers (on iOS with the
\* counters the INSERT left on the handle).
selectRow(plat, row) ==
  [rows |-> << [j \in 1..Len(row) |->
                  IF plat = "ios" THEN ios_getColumnValue(row[j])
                  ELSE android_getColumnValue(row[j])] >>,
   rowsAffected |-> IF plat = "ios" THEN 1 ELSE 0,
   insertId |-> IF plat = "ios" THEN 1 ELSE NoInsertId]

\* Android convertParamsToStringArray for one element of the JSArray, the
\* binding of executeQuery (rawQuery takes its arguments as strings): every
\* argument is bound as text, a tagged binary as the text of its _data
\* (getString raises when _data is missing), any other value as toString().
convertParamsToStringArray(value) ==
  CASE value.t = "null" -> Bound(ColumnNull)
    [] value.t = "object" /\ value.type = "binary" ->
         IF value.kind = "absent" THEN BindFailed
         ELSE Bound(Column("TEXT", [Text("") EXCEPT !.data = value.data]))
    [] value.t = "object" -> Bound(Column("TEXT", Text("{...}")))
    [] OTHER -> Bound(Column("TEXT", value))

\* POST /execute of "SELECT * FROM t WHERE c = ?" with params when the table
\* holds the row: iOS binds with bindParameter whatever the statement is,
\* Android's execute sends a SELECT to executeQuery.  The engine compares
\* the column with the value bound: values of different storage classes are
\* not equal, and NULL equals nothing.
selectWhere(plat, params, row) ==
  LET given == IF plat = "ios" THEN [err |-> NoError, values |-> params]
               ELSE android_params(params)
      b == IF given.err # NoError \/ given.values = <<>> THEN BindFailed
           ELSE IF plat = "ios" THEN ios_bindParameter(given.values[1])
           ELSE convertParamsToStringArray(given.values[1])
  IN [status |-> IF b.err = NoError THEN 200 ELSE 500, bound |-> b.column,
      matched |-> /\ b.err = NoError
                  /\ b.column.t # "NULL"
                  /\ row[1] = b.column]

----------------------------------------------------------------------------
\* One open session and the results of the statements executed on it

InitTracked ==
  /\ platform \in Platforms
  /\ server = NoServer(0)
  /\ opened = [d \in Databases |-> 0]
  /\ calls = NoCalls
  /\ databases = [d \in Databases |->
                    IF d = Main THEN Tracked(SQLDatabase({})) ELSE Closed({})]
  /\ connections = [d \in Databases |-> NoConnection]
  /\ task = Idle
  /\ requests = [w \in Workers |-> Idle]
  /\ last = [op |-> "init"]

\* connection.execute(statement): the result the client returns
ExecuteForResult ==
  /\ \E stmt \in {Insert(r) : r \in Rows} \cup {Delete(r) : r \in Rows}
                   \cup {Select, Malformed},
        fault \in {"none", "busy"} :
       LET r == executeResult(platform, databases[Main], stmt, fault)
       IN /\ databases' = [databases EXCEPT ![Main] = r.s]
          /\ last' = [op |-> "result", statement |-> stmt, err |-> r.err,
                      result |-> deserializeResult(r.result)]
  /\ UNCHANGED <<connections, task, requests>>
  /\ UNCHANGED lifecycle

SpecResult == InitTracked /\ [][ExecuteForResult]_vars

----------------------------------------------------------------------------
\* One open session with a table of one row, and the values that go into it
\* and come out of it

\* The values of the client: SQLValue = string | number | boolean | null |
\* Uint8Array.
SQLValues ==
  {Null, Text(""), Text("x"), Boolean(FALSE), Boolean(TRUE)}
    \cup {Number(n, f) : n \in 0..1, f \in BOOLEAN}
    \cup {Binary(b) : b \in ByteStrings}

\* Elements of params that are no null, text, number, boolean or tagged
\* binary: an array, an object with another _type or none, a tagged binary
\* without _data, with a _data that is no string, or with a _data that is no
\* base64 text (one character, and five).
InvalidParams ==
  {Value("array"), Object("other", "string", <<>>), Object("", "absent", <<>>),
   Object("binary", "absent", <<>>), Object("binary", "object", <<>>),
   Tagged(<<19>>), Tagged(<<19, 20, 21, 22, 23>>)}

\* The INSERT of the row, into the empty table, with the params of the body.
InsertWith(sent, params) ==
  /\ databases[Main].data = {}
  /\ LET h == databases[Main]
         r == insertRow(platform, params)
         e == IF r.status = 200 THEN execute(h, Insert(1), "none")
              ELSE [err |-> r.error, s |-> h, issued |-> FALSE]
     IN /\ databases' =
             [databases EXCEPT ![Main] =
                IF e.err = NoError
                THEN [e.s EXCEPT !.row = r.row, !.sent = sent]
                ELSE e.s]
        /\ last' = [op |-> "insert", sent |-> sent, params |-> params,
                    status |-> IF e.err = NoError THEN 200 ELSE 500,
                    error |-> e.err,
                    row |-> IF e.err = NoError THEN r.row ELSE <<>>]
  /\ UNCHANGED <<connections, task, requests>>
  /\ UNCHANGED lifecycle

\* connection.run("INSERT ...", [v]) while the table is empty; numbers with
\* a fraction are left to the round trip in the client.
ConnInsert ==
  /\ databases[Main].data = {}
  /\ \E v \in {u \in SQLValues : ~u.f} :
       InsertWith(<<v>>, serializeParams(<<v>>))

\* POST /execute of the INSERT by a client that writes the body itself,
\* while the table is empty
WireInsert ==
  /\ databases[Main].data = {}
  /\ \E v \in InvalidParams :
       \E params \in {<<v>>, <<v, Text("x")>>, <<Text("x"), v>>} :
         InsertWith(params, params)

\* connection.query("SELECT ...") of the row
ConnSelect ==
  /\ databases[Main].data # {}
  /\ LET h == databases[Main]
         answer == selectRow(platform, h.row)
     IN last' = [op |-> "select", sent |-> h.sent, answer |-> answer.rows,
                 rows |-> deserializeResult(answer).rows]
  /\ UNCHANGED <<databases, connections, task, requests>>
  /\ UNCHANGED lifecycle

\* A value serialized as a parameter and handed, as a column of a result
\* row, to deserializeResult.
Echo ==
  /\ \E v \in SQLValues :
       LET result == [rows |-> <<serializeParams(<<v>>)>>, rowsAffected |-> 0,
                      insertId |-> NoInsertId]
       IN last' = [op |-> "echo", value |-> v,
                   wire |-> serializeParams(<<v>>)[1],
                   result |-> deserializeResult(result).rows[1][1]]
  /\ UNCHANGED <<databases, connections, task, requests>>
  /\ UNCHANGED lifecycle

\* connection.query("SELECT * FROM t WHERE c = ?", [bytes]) with the bytes
\* that were inserted, with no bytes and with single bytes.
ConnSelectWhere ==
  /\ databases[Main].data # {}
  /\ LET h == databases[Main]
     IN \E v \in {Binary(b) : b \in {c \in ByteStrings : Len(c) <= 1}}
               \cup {u \in {h.sent[1]} : u.t = "binary"} :
          LET r == selectWhere(platform, serializeParams(<<v>>), h.row)
          IN last' = [op |-> "select.where", param |-> v, row |-> h.row,
                      status |-> r.status, bound |-> r.bound,
                      matched |-> r.matched]
  /\ UNCHANGED <<databases, connections, task, requests>>
  /\ UNCHANGED lifecycle

\* The rows inserted by the client and the SELECTs that look for them.
NextQuery ==
  \/ ConnInsert
  \/ ConnSelectWhere

SpecQuery == InitTracked /\ [][NextQuery]_vars

NextCodec ==
  \/ ConnInsert
  \/ WireInsert
  \/ ConnSelect

SpecCodec == InitTracked /\ [][NextCodec]_vars

\* The client's two conversions alone.
SpecEcho == InitTracked /\ [][Echo]_vars

----------------------------------------------------------------------------
\* Properties of the sequential caller (Spec, SpecBatch)

SettledTransaction == last.op = "transaction"
Now == databases[last.database]
Handle == connections[last.database]

\* A request that reached beginTransaction / commitTransaction /
\* rollbackTransaction of a registered session, over the bridge or over HTTP.
BeginReached ==
  \/ last.op = "beginTransaction" /\ last.before.registered
  \/ last.op \in {"conn.beginTransaction", "body.transaction"} /\ last.sent
CommitReached ==
  \/ last.op = "commitTransaction" /\ last.before.registered
  \/ last.op \in {"conn.commit", "transaction.commit"} /\ last.sent
RollbackReached ==
  \/ last.op = "rollbackTransaction" /\ last.before.registered
  \/ last.op = "conn.rollback" /\ last.sent

C2_OriginalErrorKept ==
  (SettledTransaction /\ last.settled = "rejected" /\ last.caught # NoFailure)
    => last.thrown = last.caught

\* C3 (as claimed): commitTransaction and rollbackTransaction on a session
\* whose flag is set leave the flag clear, whatever the engine answered.
C3_FlagAlwaysCleared ==
  ((CommitReached \/ RollbackReached) /\ last.before.inTransaction)
    => ~Now.inTransaction

\* C4 (as claimed): when a transaction() that began settles, the handle's
\* flag and the session's flag are both clear.
C4_ReleasedOnEveryExit ==
  (SettledTransaction /\ last.began)
    => ~Handle.inTransaction /\ ~Now.inTransaction

\* C5: beginTransaction on a session whose flag is set fails with
\* transactionAlreadyActive, sends nothing to the engine and leaves the
\* session as it was: flag set, transaction open, writes neither committed
\* nor rolled back.
C5_SecondBeginRejected ==
  (BeginReached /\ last.before.inTransaction)
    => /\ last.err = "transactionAlreadyActive"
       /\ ~last.issued
       /\ Now = last.before

\* C5 witness: a second begin met an open transaction with pending writes.
C5_Witness ==
  /\ BeginReached /\ last.before.inTransaction /\ last.before.tx
  /\ last.before.data # last.before.durable
  /\ last.err = "transactionAlreadyActive"

\* C6: commitTransaction or rollbackTransaction on a session whose flag is
\* clear fails with noTransactionActive, sends no COMMIT/ROLLBACK to the
\* engine and leaves flag and data as they were.
C6_EndWithoutBeginRejected ==
  ((CommitReached \/ RollbackReached) /\ ~last.before.inTransaction)
    => /\ last.err = "noTransactionActive"
       /\ ~last.issued
       /\ Now = last.before

\* C6 witness: a commit met a clear flag while the engine had a transaction
\* with pending writes open (begun by a plain BEGIN statement).
C6_Witness ==
  /\ CommitReached /\ ~last.before.inTransaction
  /\ last.before.tx /\ last.before.data # last.before.durable
  /\ last.err = "noTransactionActive"

\* C7: a begin on a handle that is in a transaction, transaction() called in
\* the body of transaction() included, throws and changes nothing (it is not
\* merged into the active transaction); when the body lets the error
\* propagate, the outer transaction() rejects with it and is rolled back.
C7_NestedRejected ==
  /\ (last.op \in {"conn.beginTransaction", "body.transaction"}
        /\ last.handle.inTransaction)
       => /\ last.thrown # NoFailure
          /\ Now = last.before /\ Handle = last.handle
  /\ task.pc # "idle" => task.nested # "merged"
  /\ (SettledTransaction /\ last.nested # "no")
       => /\ last.nested = "rejected" /\ last.settled = "rejected"
          /\ last.thrown = last.caught
          /\ ~Now.tx /\ ~Now.inTransaction /\ ~Handle.inTransaction
          /\ Now.data = last.pre.data /\ Now.durable = last.pre.durable

\* C7 witness: the body wrote, then called transaction() again.
C7_Witness ==
  /\ SettledTransaction /\ last.nested = "rejected"
  /\ last.wrote # {} /\ last.wrote \cap last.pre.data = {}

\* The first operation of a batch that fails on a table holding rows: it is
\* malformed, or it inserts a row that is there or that an earlier operation
\* of the batch inserted.  0 when no operation fails.
OperationFails(ops, i, rows) ==
  \/ ops[i] = Malformed
  \/ ops[i][2] \in rows \cup {ops[j][2] : j \in 1..(i - 1)}

FirstFailing(ops, rows) ==
  IF \E i \in 1..Len(ops) : OperationFails(ops, i, rows)
  THEN CHOOSE i \in 1..Len(ops) :
         /\ OperationFails(ops, i, rows)
         /\ \A j \in 1..(i - 1) : ~OperationFails(ops, j, rows)
  ELSE 0

\* C10: a batch runs its operations in list order; if operation k is the
\* first to fail, operations 1..k-1 ran and stay in effect (durable when no
\* transaction is open, pending in the open transaction otherwise), k+1..n
\* are never handed to the engine, and the answer is an error with k's
\* failure and no results.
C10_BatchStopsAtFirstFailure ==
  last.op = "conn.executeBatch" =>
    LET ops == last.ops
        pre == last.before
        k == FirstFailing(ops, pre.data)
        ran == IF k = 0 THEN Len(ops) ELSE k - 1
        done == {ops[j][2] : j \in 1..ran}
    IN /\ last.stepped = SubSeq(ops, 1, IF k = 0 THEN Len(ops) ELSE k)
       /\ Now.data = pre.data \cup done
       /\ Now.durable = IF pre.tx THEN pre.durable ELSE pre.data \cup done
       /\ Now.tx = pre.tx /\ Now.inTransaction = pre.inTransaction
       /\ IF k = 0
          THEN /\ last.status = 200 /\ last.results = Len(ops)
               /\ last.thrown = NoFailure
          ELSE /\ last.status = 500 /\ last.results = 0
               /\ last.err = IF ops[k] = Malformed THEN "prepareFailed"
                                                   ELSE "executeFailed"
               /\ last.thrown = <<"SQL batch execution failed", last.err>>

\* C10 witness: a batch of three whose second operation failed after the
\* first inserted a row, outside any transaction.
C10_Witness ==
  /\ last.op = "conn.executeBatch" /\ Len(last.ops) = 3
  /\ last.status = 500 /\ Len(last.stepped) = 2
  /\ ~last.before.tx /\ Now.durable # last.before.durable

----------------------------------------------------------------------------
\* Properties of the server under concurrent requests

Succeeded(w) == requests[w].pc = "done" /\ requests[w].status = 200

\* C8: of the beginTransaction requests the server processes concurrently
\* for one logical database, at most one succeeds, whatever the interleaving
\* of their flag checks, engine BEGINs and flag writes.
C8_OneBeginSucceeds ==
  \A v, w \in Workers :
    (v # w /\ Succeeded(v) /\ Succeeded(w))
      => requests[v].database # requests[w].database

\* C8 witness: two requests for one database passed the guard together; one
\* was answered 200, the other failed at the engine's BEGIN.
C8_Witness ==
  \E v, w \in Workers :
    /\ v # w /\ Succeeded(v)
    /\ requests[w].pc = "done" /\ requests[w].database = requests[v].database
    /\ requests[w].status = 500 /\ requests[w].error = "executeFailed"

\* C9 (as claimed): never are two transaction operations of one session in
\* progress at once, and a session is never closed while one is in progress
\* on it.
C9_OneOperationPerSession ==
  /\ \A d \in Databases : Cardinality(InProgress(d)) <= 1
  /\ last.op = "disconnect" => ~last.inFlight

----------------------------------------------------------------------------
\* Properties of the server's request entry (SpecServe)

ServeStep == last'.op = "serve"
PluginUnchanged == databases' = databases /\ server' = server /\ opened' = opened

EarlierTokens ==
  {generateToken(i) : i \in {j \in 0..server.created : j + 2 <= server.created}}

\* C12: the instance made by a connect that follows the disconnect of the
\* last open database has a token that no earlier instance had, and a
\* request that carries an earlier instance's token is answered 401.
C12_OldTokenRefused ==
  server.exists =>
    /\ server.token \notin EarlierTokens
    /\ (last.op = "serve" /\ last.authorization \in {Bearer(n) : n \in EarlierTokens})
         => last.status = 401

\* C12 witness: the second instance answered 401 to the first one's token.
C12_Witness ==
  /\ server.running /\ EarlierTokens # {}
  /\ last.op = "serve" /\ last.status = 401
  /\ last.authorization \in {Bearer(n) : n \in EarlierTokens}
  /\ last.database # NoDatabaseHeader /\ databases[last.database].registered

\* C14 (as claimed): an authenticated request that names a database that is
\* open now is never answered 404.
C14_OpenDatabaseFound ==
  [][(/\ ServeStep /\ last'.authorization = Bearer(server.token)
      /\ last'.database # NoDatabaseHeader /\ last'.path \in Routes
      /\ databases[last'.database].registered)
       => last'.status # 404]_vars

\* C15 (as claimed): an authenticated request without a database header is
\* answered 400, one that names a database that is not open now is answered
\* 404, and neither touches a session.
C15_MissingOrUnknownDatabase ==
  [][(ServeStep /\ last'.authorization = Bearer(server.token))
       => /\ last'.database = NoDatabaseHeader
               => last'.status = 400 /\ ~last'.issued /\ PluginUnchanged
          /\ (/\ last'.database # NoDatabaseHeader
              /\ ~databases[last'.database].registered)
               => last'.status = 404 /\ ~last'.issued /\ PluginUnchanged]_vars

----------------------------------------------------------------------------
\* Properties of the plugin's lifecycle (SpecPlugin)

Registered == {d \in Databases : databases[d].registered}
ConnectStep == last'.op = "plugin.connect"
DisconnectStep == last'.op = "plugin.disconnect"

\* C13 (as claimed): a Server Instance exists and is running exactly when a
\* database is registered, also after calls that failed part-way.
C13_ServerIffRegistered ==
  (server.exists /\ server.running) <=> Registered # {}

\* C16 (as claimed): a name has at most one open engine handle, the
\* registered one; connect on a name that is open resolves with the server's
\* port and token and opens nothing, whatever its options.
C16_OneHandlePerName ==
  [][/\ \A d \in Databases :
          opened'[d] = IF databases'[d].registered THEN 1 ELSE 0
     /\ (ConnectStep /\ databases[last'.database].registered)
          => /\ last'.resolved /\ last'.info = Info(server)
             /\ PluginUnchanged]_vars

\* C17: disconnect of a name that is not connected fails with notConnected
\* and changes nothing: sessions, server, token, port and NativeSQL's cache
\* stay as they were.  NativeSQL.disconnect of a name it has no handle for,
\* or that the plugin rejects, throws and keeps its cache.
C17_DisconnectUnknownRejected ==
  [][/\ (DisconnectStep /\ ~databases[last'.database].registered)
          => /\ ~last'.resolved /\ last'.error = "notConnected"
             /\ PluginUnchanged /\ connections' = connections
     /\ (/\ last'.op = "native.disconnect"
         /\ \/ ~connections[last'.database].present
            \/ ~databases[last'.database].registered)
          => /\ last'.thrown
             /\ PluginUnchanged /\ connections' = connections]_vars

\* C17 witness: disconnect of a name that is not connected was rejected while
\* the server was running for another database.
C17_Witness ==
  /\ last.op = "plugin.disconnect" /\ ~last.resolved
  /\ server.running /\ Registered # {}

C20_EncryptedOrFails ==
  (last.op = "plugin.connect" /\ last.options.encrypted /\ last.resolved)
    => last.keyed

----------------------------------------------------------------------------
\* Properties of NativeSQL.connect (SpecNative)

\* C19 (as claimed): all connect calls for a name return the same handle
\* object, also when they overlap.
C19_OneHandleObjectPerName ==
  \A j, k \in Callers :
    (/\ calls[j].pc = "done" /\ calls[k].pc = "done"
     /\ calls[j].database = calls[k].database)
      => calls[j].returned = calls[k].returned

----------------------------------------------------------------------------
\* Properties of the listening socket (SpecPlugin)

\* C21 (as claimed): whenever the server is running, its listening socket is
\* bound to the loopback interface only, on iOS and on Android, whichever
\* port was chosen.
C21_LoopbackOnly ==
  server.running => server.interface = Loopback

\* C29 (as claimed): each database connection has its own token: a connect
\* that opens a database while another database is open resolves with a
\* token different from the one the other database's connect was given (the
\* token of the server that has been running since).
C29_OwnTokenPerDatabase ==
  [][(/\ ConnectStep /\ last'.resolved /\ server.running
      /\ \E e \in Databases \ {last'.database} : databases[e].registered)
       => last'.info.token # server.token]_vars

----------------------------------------------------------------------------
\* Properties of the Transaction Flag (Spec)

\* C30 (as claimed): in every reachable state of a Database Session the
\* Transaction Flag is set exactly when a transaction of the engine is open
\* on the session's handle, also when BEGIN, COMMIT or ROLLBACK arrive as
\* plain statements through execute or a batch.
C30_FlagIffEngineTransaction ==
  \A d \in Databases :
    databases[d].isOpen => (databases[d].inTransaction <=> databases[d].tx)

----------------------------------------------------------------------------
\* Properties of the answers to requests of any method and body
\* (SpecRequests)

RequestStep == last'.op = "request"

\* C22 (as claimed): an OPTIONS request to a routed path is answered 200
\* without any check of the token or of the database header and without
\* touching any session, on iOS and on Android.
C22_PreflightUnchecked ==
  [][(RequestStep /\ last'.method = "OPTIONS" /\ last'.path \in Routes)
       => last'.status = 200 /\ ~last'.issued /\ PluginUnchanged]_vars

\* The POST requests that pass the guards and whose body the handler cannot
\* use: no JSON, no "statement" / "operations" member, or a batch with an
\* operation without statement.
MalformedRequest(l) ==
  /\ l.method = "POST" /\ l.path \in {"/execute", "/batch"}
  /\ \/ l.body # "valid"
     \/ l.path = "/batch" /\ \E i \in 1..Len(l.ops) : l.ops[i] = NoStatement

\* The errors of the session and of the engine.
EngineErrors ==
  {"notOpen", "prepareFailed", "executeFailed", "transactionAlreadyActive",
   "noTransactionActive"}

\* C28 (as claimed): every error answer has the status of its cause: a
\* malformed request is answered 400 and no statement of it is executed, a
\* request without the token 401, an unknown route 404, and 500 is the
\* answer only when a statement or transaction operation failed in the
\* session.
C28_StatusOfCause ==
  [][(RequestStep /\ last'.method = "POST")
       => /\ last'.authorization # Bearer(server.token) => last'.status = 401
          /\ (/\ last'.authorization = Bearer(server.token)
              /\ last'.database # NoDatabaseHeader
              /\ last'.status # 404)
               => /\ MalformedRequest(last')
                     => last'.status = 400 /\ ~last'.issued /\ PluginUnchanged
                  /\ last'.status = 500 => last'.error \in EngineErrors
                  /\ last'.status = 400 => MalformedRequest(last')
          /\ (last'.authorization = Bearer(server.token)
              /\ last'.database # NoDatabaseHeader /\ last'.path \notin Routes)
               => last'.status = 404]_vars

----------------------------------------------------------------------------
\* Properties of the result of execute (SpecResult)

\* C23 (as claimed): the result of execute carries an insertId only when the
\* statement executed was itself an INSERT that produced a positive row id;
\* a statement that is no INSERT returns no insertId, also after an earlier
\* INSERT on the same session.
C23_InsertIdOnlyForInsert ==
  (last.op = "result" /\ last.err = NoError
     /\ last.result.insertId # NoInsertId)
    => last.statement[1] = "INSERT"

\* C24 (as claimed): execute of a statement that modifies no rows (a SELECT)
\* returns rowsAffected 0, whatever ran before on the session.
C24_SelectAffectsNoRows ==
  (last.op = "result" /\ last.err = NoError /\ last.statement = Select)
    => last.result.rowsAffected = 0

----------------------------------------------------------------------------
\* Properties of the values stored and read back (SpecCodec, SpecEcho)

\* C25 (as claimed): a Uint8Array of any length, zero included, passed as
\* the parameter of an INSERT and read back by a SELECT decodes to the same
\* bytes on iOS and on Android, and is on the wire, in both directions, the
\* tagged object with the base64 text of the bytes.
C25_BinaryStoredAndReadBack ==
  /\ (last.op = "insert" /\ last.sent[1].t = "binary")
       => /\ last.status = 200
          /\ last.params = <<Tagged(btoa(last.sent[1].b))>>
  /\ (last.op = "select" /\ last.sent[1].t = "binary")
       => /\ last.rows = << <<last.sent[1]>> >>
          /\ last.answer = << <<Tagged(btoa(last.sent[1].b))>> >>

\* C26: for every SQL value v (null, text, integer, float, boolean, and
\* binary of each length up to MaxBytes, zero included),
\* deserializeResult applied to serializeParams of v gives v.
C26_SerializeThenDeserialize ==
  last.op = "echo" => last.result = last.value

\* C26 witness: a binary of the greatest length, with a rest after its
\* groups of three bytes, went through the tagged form and came back.
C26_Witness ==
  /\ last.op = "echo" /\ last.value.t = "binary"
  /\ Len(last.value.b) = MaxBytes /\ Len(last.value.b) % 3 # 0
  /\ last.wire = Tagged(btoa(last.value.b))
  /\ last.result = last.value

\* C27 (as claimed): a parameter of the request that is no null, text,
\* number, boolean or well-formed tagged binary makes execute fail with an
\* error: it is never dropped, replaced by null or bound as a text.
C27_InvalidParamRefused ==
  (last.op = "insert"
     /\ \E i \in 1..Len(last.params) : last.params[i] \in InvalidParams)
    => last.status # 200 /\ databases[Main].data = {}

----------------------------------------------------------------------------
\* Recovery of the handle (Spec)

\* The number of commit and rollback calls a recovery may take.
MaxCalls == 3

\* Some sequence of at most n commit() and rollback() calls on the handle,
\* with the engine working, after which beginTransaction() resolves.
RECURSIVE CanBeginAfter(_, _, _)
CanBeginAfter(c, s, n) ==
  \/ conn_beginTransaction(c, s).thrown = NoFailure
  \/ /\ n > 0
     /\ \/ LET r == conn_commit(c, s, "none") IN CanBeginAfter(r.c, r.s, n - 1)
        \/ LET r == conn_rollback(c, s) IN CanBeginAfter(r.c, r.s, n - 1)

\* C31 (as claimed): a Connection Handle never becomes permanently unable to
\* start a transaction: from every state reached through calls on the handle
\* and the bridge's beginTransaction, commitTransaction and
\* rollbackTransaction, some sequence of commit or rollback calls on the
\* handle leads, without disconnecting, to a state in which the handle's
\* beginTransaction succeeds.
C31_HandleCanBeginAgain ==
  \A d \in Databases :
    (task.pc = "idle" /\ connections[d].present /\ databases[d].registered)
      => CanBeginAfter(connections[d], databases[d], MaxCalls)

----------------------------------------------------------------------------
\* Properties of plain statements next to a transaction (SpecTasks)

\* The plain execute calls that were acknowledged with success.
Acknowledged ==
  {w \in Workers : requests[w].pc = "done" /\ requests[w].status = 200}

\* The rollback of transaction() that the server answers with success.
RollbackStep ==
  /\ task.pc = "catch"
  /\ last'.op = "transaction"
  /\ last'.rollbackThrown = NoFailure

\* C32 (as claimed): a statement issued on a handle outside any transaction
\* body and acknowledged with success is never undone by a later rollback,
\* also when another task's transaction() on the same handle was open when
\* the statement reached the server and later rolls back.
C32_AcknowledgedIsDurable ==
  [][RollbackStep =>
       \A w \in Acknowledged :
         LET q == requests[w]
         IN q.ops[1][2] \in databases[q.database].data
              => q.ops[1][2] \in databases'[q.database].data]_vars

\* C32 (amended): a plain statement acknowledged with success is durable
\* from then on when the engine had no transaction open as it reached the
\* server; one that reached the server inside an open transaction belongs to
\* that transaction, and the rollback of the transaction removes its row as
\* long as no commit made it durable.
C32_DurableUnlessJoined ==
  [][\A w \in Workers :
       /\ (requests'[w].pc = "done" /\ requests'[w].status = 200
             /\ ~requests'[w].joined)
            => requests'[w].ops[1][2]
                 \in databases'[requests'[w].database].durable
       /\ (w \in Acknowledged /\ requests[w].joined /\ RollbackStep
             /\ requests[w].ops[1][2]
                  \notin databases[requests[w].database].durable)
            => requests[w].ops[1][2]
                 \notin databases'[requests[w].database].data]_vars

\* Both cases next to one rollback: a row written before the transaction
\* began is there, a row written while it was open is gone.
C32_Witness ==
  /\ last.op = "transaction"
  /\ last.settled = "rejected"
  /\ last.rollbackThrown = NoFailure
  /\ \E v, w \in Acknowledged :
       /\ ~requests[v].joined
       /\ requests[v].ops[1][2] \in databases[Main].data
       /\ requests[v].ops[1][2] \in last.pre.data
       /\ requests[w].joined
       /\ requests[w].ops[1][2] \notin databases[Main].data

----------------------------------------------------------------------------
\* Properties of a database connected again (SpecReconnect)

\* C33 (as claimed): after a database is disconnected while a transaction is
\* active on it and then connected again, a beginTransaction request through
\* the new handle succeeds, the new session has the Transaction Flag of that
\* begin only, and the writes of the abandoned transaction are not visible;
\* also when other databases kept the server running in between.
C33_ReconnectedStartsClear ==
  [][(/\ last.op = "connect.again"
      /\ last'.op = "handle.request"
      /\ last'.database = last.database
      /\ last'.path = "/transaction/begin")
       => /\ last'.status = 200
          /\ databases'[last.database].inTransaction
          /\ databases'[last.database].data \cap last.pending = {}]_vars

----------------------------------------------------------------------------
\* Properties of a connect that rejects (SpecPlugin)

\* C34 (as claimed): a connect call that rejects (the database does not
\* open, the server cannot be made or does not start) leaves the registry
\* and the server exactly as they were before the call: no session stays
\* registered and no server object that is not running stays installed.
C34_RejectedConnectChangesNothing ==
  [][(last'.op = "plugin.connect" /\ ~last'.resolved)
       => (databases' = databases /\ server' = server)]_vars

----------------------------------------------------------------------------
\* Properties of the handles NativeSQL returns (SpecCalls)

\* The handle of d, returned now, is of a database that is open in the
\* plugin and carries the token of the plugin's server.
Usable(d) ==
  /\ databases'[d].registered
  /\ connections'[d].token = server'.token

\* C35 (as claimed): every handle returned by NativeSQL.connect or
\* NativeSQL.getConnection refers to a database that is open on the native
\* side at the moment it is returned and carries the current server token,
\* for any interleaving of overlapping connect, disconnect and disconnectAll
\* calls; after disconnectAll resolves, getOpenDatabases() is empty.
C35_ReturnedHandleIsOpen ==
  [][/\ \A k \in Callers :
          (calls[k].pc # "done" /\ calls'[k].pc = "done")
            => Usable(calls'[k].database)
     /\ (last'.op = "native.getConnection" /\ last'.returned.present)
          => Usable(last'.database)
     /\ (last'.op = "native.disconnectAll" /\ last'.resolved)
          => last'.open = {}]_vars

----------------------------------------------------------------------------
\* Properties of the handle's flag (Spec)

\* C36: beginTransaction on a handle whose inTransaction is set, and commit
\* or rollback on a handle whose flag is clear, throw without sending a
\* request and leave the handle and the session as they were; the handle's
\* flag changes only when the server answered the request with success, and
\* stays as it was when the server answered with an error.
C36_FlagFollowsAnswer ==
  last.op \in {"conn.beginTransaction", "conn.commit", "conn.rollback"}
    => /\ (last.handle.inTransaction <=> last.op = "conn.beginTransaction")
            => /\ ~last.sent
               /\ last.thrown # NoFailure
               /\ Handle = last.handle
               /\ Now = last.before
       /\ Handle.inTransaction # last.handle.inTransaction
            => last.sent /\ last.thrown = NoFailure
       /\ (last.sent /\ last.thrown # NoFailure) => Handle = last.handle

\* C36 witness: the server answered a commit with an error after the engine
\* had rolled the transaction back, and the handle's flag is still set.
C36_Witness ==
  /\ last.op = "conn.commit"
  /\ last.sent
  /\ last.thrown # NoFailure
  /\ last.before.tx /\ ~Now.tx
  /\ Handle.inTransaction

----------------------------------------------------------------------------
\* Properties of the parameters of a SELECT (SpecQuery)

\* C37 (as claimed): execute binds a tagged binary parameter as the
\* base64-decoded bytes for every kind of statement, a SELECT as well as an
\* INSERT, so that a SELECT comparing a blob column with a binary parameter
\* matches exactly the rows whose stored bytes equal the parameter.
C37_BinaryBoundInSelect ==
  last.op = "select.where"
    => /\ last.status = 200
       /\ last.bound = Column("BLOB", last.param)
       /\ last.matched
            <=> (last.row[1].t = "BLOB" /\ last.row[1].b = last.param.b)

----------------------------------------------------------------------------
\* Properties of the Transport Server's lifecycle (SpecTransport)

\* C38: the Transport Server moves only from Stopped to Running by a start
\* that bound its socket and from Running to Stopped by a stop: start() on a
\* running server changes nothing, stop() on a stopped server changes
\* nothing, and a start() that fails to bind leaves the server Stopped.
C38_StartStopLifecycle ==
  [][/\ (last'.op = "server.start" /\ server.running) => server' = server
     /\ (last'.op = "server.stop" /\ ~server.running) => server' = server
     /\ (last'.op = "server.start" /\ ~last'.bound) => server' = server
     /\ (last'.op = "plugin.connect" /\ ~last'.resolved)
          => (server'.running <=> server.running)
     /\ (~server.running /\ server'.running)
          => \/ last'.op = "server.start" /\ last'.bound
             \/ last'.op = "plugin.connect" /\ last'.resolved
     /\ (server.running /\ ~server'.running)
          => last'.op \in {"server.stop", "plugin.disconnect"}]_vars

\* C38 witness: start() was called on a running server, with a port that
\* could not have been bound again, and the server is running as before.
C38_Witness ==
  /\ last.op = "server.start"
  /\ ~last.bound
  /\ ~last.thrown
  /\ server.running

----------------------------------------------------------------------------
\* KeyValueStore: the table __kv_store (s, k, t, v) with PRIMARY KEY (s, k)

\* Two stores of one database, and the keys used, in ascending order.
Stores == {"default", "other"}
KVKeys == <<"a", "b">>
KeySet == {KVKeys[i] : i \in 1..Len(KVKeys)}

\* A plain object or an array, a KeyValueValue that neither typeof nor
\* instanceof Uint8Array recognises.
Json(kind) == [Value("json") EXCEPT !.kind = kind]

\* The values handed to set: every KeyValueValue type.  1 with a fraction
\* stands for 1.5.
KeyValueValues ==
  {Null, Text("x"), Number(1, FALSE), Number(1, TRUE), Boolean(TRUE),
   Boolean(FALSE), Binary(<<>>), Binary(<<77>>), Json("object"),
   Json("array")}

\* What is written to the second store: the first key, two values.
OtherKeys == {KVKeys[1]}
OtherValues == {Null, Text("x")}

\* encodeValue(value): the type text and the SQL value stored; JSON.stringify
\* gives "{}" for the object and "[]" for the array.
encodeValue(value) ==
  CASE value.t = "null" -> [type |-> "null", value |-> Null]
    [] value.t = "binary" -> [type |-> "binary", value |-> value]
    [] value.t = "string" -> [type |-> "string", value |-> value]
    [] value.t = "number" -> [type |-> "number", value |-> value]
    [] value.t = "boolean" ->
         [type |-> "boolean", value |-> Number(value.n, FALSE)]
    [] OTHER ->
         [type |-> "json",
          value |-> Text(IF value.kind = "array" THEN "[]" ELSE "{}")]

\* decodeValue(type, value): value is the column v of the row read, after
\* deserializeResult.  Number(text) of a text that is no number is NaN, and
\* 0 is returned; JSON.parse of a text that is no JSON raises, and null is
\* returned.
decodeValue(type, value) ==
  CASE type = "null" -> Null
    [] type = "binary" -> IF value.t = "binary" THEN value ELSE Null
    [] type = "string" ->
         IF value.t = "null" THEN Text("")
         ELSE IF value.t = "string" THEN value
         ELSE [Text("String()") EXCEPT !.n = value.n, !.b = value.b]
    [] type = "number" ->
         IF value.t = "number" THEN value ELSE Number(0, FALSE)
    [] type = "boolean" ->
         IF value.t = "number" THEN Boolean(value.n # 0 \/ value.f)
         ELSE IF value.t = "string" THEN Boolean(value.s \in {"1", "true"})
         ELSE Boolean(value.t # "null")
    [] type = "json" ->
         IF value.t = "string" /\ value.s \in {"{}", "[]"}
         THEN Json(IF value.s = "[]" THEN "array" ELSE "object")
         ELSE Null
    [] OTHER -> value

\* A key of a store with no row, and the table with no row at all.  was is
\* the value handed to the set that wrote the row; no operation reads it.
Absent ==
  [present |-> FALSE, s |-> ColumnNull, k |-> ColumnNull, t |-> ColumnNull,
   v |-> ColumnNull, was |-> Null]
NoKey == ""

\* The rows "WHERE s = ? [AND k = ?]" selects with params bound: a SELECT is
\* bound as selectWhere binds, a DELETE as insertRow binds.
kvWhere_AnyStore(plat, query, table, store, key) ==
  {e \in DOMAIN table : table[e].present}
kvWhere(plat, query, table, store, key) ==
  LET bind(x) == IF query
                 THEN selectWhere(plat, serializeParams(<<Text(x)>>),
                                  <<ColumnNull>>).bound
                 ELSE insertRow(plat, serializeParams(<<Text(x)>>)).row[1]
  IN {e \in DOMAIN table :
        /\ table[e].present
        /\ table[e].s = bind(store)
        /\ key # NoKey => table[e].k = bind(key)}

\* The columns of a row as the client reads them.
kvRead(plat, entry) ==
  deserializeResult(
    [selectRow(plat, <<entry.s, entry.k, entry.t, entry.v>>)
       EXCEPT !.insertId = NoInsertId]).rows[1]

\* KeyValueStore.open(options) has run for each store: the schema exists,
\* initialized is set, and ensureSchema returns at once in every operation.
InitKeyValue ==
  /\ platform \in Platforms
  /\ server = NoServer(0)
  /\ opened = [d \in Databases |-> 0]
  /\ calls = NoCalls
  /\ databases = [d \in Databases |->
                    IF d = Main
                    THEN SQLDatabase({})
                           @@ [kv |-> [e \in Stores \X KeySet |-> Absent]]
                    ELSE Closed({})]
  /\ connections = [d \in Databases |-> NoConnection]
  /\ task = Idle
  /\ requests = [w \in Workers |-> Idle]
  /\ last = [op |-> "init"]

\* set(key, value): INSERT OR REPLACE INTO __kv_store (s, k, t, v)
\* VALUES (?, ?, ?, ?); the row replaces the one with the same s and k.
KvSet(store, key, value) ==
  LET encoded == encodeValue(value)
      r == insertRow(platform,
                     serializeParams(<<Text(store), Text(key),
                                       Text(encoded.type), encoded.value>>))
      table == databases[Main].kv
  IN /\ databases' =
          [databases EXCEPT ![Main].kv =
             IF r.status # 200 THEN table
             ELSE [table EXCEPT ![<<r.row[1].s, r.row[2].s>>] =
                     [present |-> TRUE, s |-> r.row[1], k |-> r.row[2],
                      t |-> r.row[3], v |-> r.row[4], was |-> value]]]
     /\ last' = [op |-> "kv.set", store |-> store, key |-> key,
                 value |-> value, status |-> r.status]
     /\ UNCHANGED <<connections, task, requests>>
     /\ UNCHANGED lifecycle

\* get(key): SELECT t, v FROM __kv_store WHERE s = ? AND k = ? LIMIT 1
KvGet(store, key) ==
  LET table == databases[Main].kv
      rows == kvWhere(platform, TRUE, table, store, key)
  IN /\ last' = [op |-> "kv.get", store |-> store, key |-> key,
                 returned |->
                   IF rows = {} THEN Null
                   ELSE LET row == kvRead(platform, table[CHOOSE e \in rows : TRUE])
                        IN decodeValue(row[3].s, row[4])]
     /\ UNCHANGED <<databases, connections, task, requests>>
     /\ UNCHANGED lifecycle

\* has(key): SELECT 1 FROM __kv_store WHERE s = ? AND k = ? LIMIT 1
KvHas(store, key) ==
  /\ last' = [op |-> "kv.has", store |-> store, key |-> key,
              returned |->
                kvWhere(platform, TRUE, databases[Main].kv, store, key) # {}]
  /\ UNCHANGED <<databases, connections, task, requests>>
  /\ UNCHANGED lifecycle

\* keys(): SELECT k FROM __kv_store WHERE s = ? ORDER BY k, each row mapped
\* to String(row.k).
KvKeys(store) ==
  LET table == databases[Main].kv
      rows == kvWhere(platform, TRUE, table, store, NoKey)
      ordered == SelectSeq([i \in 1..Len(KVKeys) |-> <<store, KVKeys[i]>>],
                           LAMBDA e : e \in rows)
  IN /\ last' = [op |-> "kv.keys", store |-> store,
                 returned |-> [i \in 1..Len(ordered) |->
                                 kvRead(platform, table[ordered[i]])[2].s]]
     /\ UNCHANGED <<databases, connections, task, requests>>
     /\ UNCHANGED lifecycle

\* remove(key): DELETE FROM __kv_store WHERE s = ? AND k = ?
\* clear(): DELETE FROM __kv_store WHERE s = ?  (key is NoKey)
KvDelete(store, key) ==
  LET table == databases[Main].kv
      rows == kvWhere(platform, FALSE, table, store, key)
  IN /\ databases' =
          [databases EXCEPT ![Main].kv =
             [e \in DOMAIN table |-> IF e \in rows THEN Absent ELSE table[e]]]
     /\ last' = [op |-> IF key = NoKey THEN "kv.clear" ELSE "kv.remove",
                 store |-> store, key |-> key]
     /\ UNCHANGED <<connections, task, requests>>
     /\ UNCHANGED lifecycle
KvRemove(store, key) == KvDelete(store, key)
KvClear(store) == KvDelete(store, NoKey)

NextKeyValue ==
  \/ \E key \in KeySet, value \in KeyValueValues : KvSet("default", key, value)
  \/ \E key \in OtherKeys, value \in OtherValues : KvSet("other", key, value)
  \/ \E store \in Stores, key \in KeySet : KvGet(store, key)
  \/ \E store \in Stores, key \in KeySet : KvHas(store, key)
  \/ \E store \in Stores : KvKeys(store)
  \/ \E store \in Stores, key \in KeySet : KvRemove(store, key)
  \/ \E store \in Stores : KvClear(store)

SpecKeyValue == InitKeyValue /\ [][NextKeyValue]_vars

\* C39: set, remove and clear on store s change only entries of store s, and
\* set and remove change no key of s other than the one they name.
C39_OnlyTheNamedEntries ==
  [][last'.op \in {"kv.set", "kv.remove", "kv.clear"} =>
       \A e \in Stores \X KeySet :
         (e[1] # last'.store \/ (last'.op # "kv.clear" /\ e[2] # last'.key))
           => databases'[Main].kv[e] = databases[Main].kv[e]]_vars

C39_Witness ==
  /\ last.op = "kv.clear"
  /\ last.store = "default"
  /\ \A key \in OtherKeys : databases[Main].kv[<<"other", key>>].present
  /\ \A key \in KeySet : ~databases[Main].kv[<<"default", key>>].present

\* C40: get(k) returns the last value set for k, or null when k is absent;
\* has(k) is true exactly for the present keys; keys() lists exactly the
\* present keys in ascending order.
C40_ObservedAsMap ==
  LET table == databases[Main].kv
  IN /\ last.op = "kv.get" =>
          last.returned = IF table[<<last.store, last.key>>].present
                          THEN table[<<last.store, last.key>>].was
                          ELSE Null
     /\ last.op = "kv.has" =>
          (last.returned <=> table[<<last.store, last.key>>].present)
     /\ last.op = "kv.keys" =>
          last.returned = SelectSeq(KVKeys,
                            LAMBDA k : table[<<last.store, k>>].present)

====
